---- MODULE Spec2Model ----
(***************************************************************************)
(* github-exporter: the collector goroutine of internal/collectors         *)
(* (GitHubCollector).  One process runs collection cycles on a ticker;     *)
(* every upstream call is gated by a token-bucket limiter that is rebuilt  *)
(* from the quota the upstream reports.                                    *)
(*                                                                         *)
(* Conventions.                                                            *)
(*  - Time is in whole seconds (time.Duration is truncated to seconds);    *)
(*    the zero time.Time is 0.                                             *)
(*  - A Go string that the code splits or tests for emptiness is a         *)
(*    sequence of characters, "" is << >>.  Labels the code only copies    *)
(*    (branch, workflow, conclusion, visibility) are TLA+ strings.         *)
(*  - A Go pointer is a sequence of length 0 (nil) or 1 (the pointee).     *)
(*  - RateLimitBuffer is the fraction RateLimitBufferNum/RateLimitBufferDen*)
(*    and int(float64(x) * buffer) is the exact floor.                     *)
(*  - A rate.Limit r is the pair rateNum/rateDen (tokens per second); the  *)
(*    bucket's tokens are kept multiplied by rateDen.                      *)
(*  - limiter.Wait followed by the upstream call it gates is one step:     *)
(*    the wait advances the clock to the moment the token is available.    *)
(***************************************************************************)
EXTENDS Integers, Sequences, FiniteSets, TLC

\* ---------------------------------------------------------------- bounds
\* Clock value when the collector is constructed.
Epoch == 1000
\* Ticks the scheduler handles after the immediate first cycle.
MaxTicks == 1
\* Seconds between a quota response and the reset time it reports (future).
ResetWindow == 3600
\* Seconds by which a stale quota response's reset time lies in the past.
PastOffset == 60
\* Entries the upstream returns per list page (the code asks for 100).
PerPage == 2
\* Pages of the accessible-repository listing the upstream holds.
MaxPages == 2
\* Workflow runs in one workflow-run page.
MaxRuns == 3
\* Check runs in one check-run page.
MaxChecks == 1
\* Seconds to a reset time that is close, and a configured interval as short.
ShortWindow == 10
\* Ticks handled where cycles outlast the interval.
MaxSlowTicks == 2
\* Entries of a repository list where hasWildcardRepos is applied.
MaxRepos == 3

\* ------------------------------------------------------ program constants
FiveMinutes == 300
OneHour == 3600
MinInterval == 30
InitialRate == 1
Burst == 1
DefaultIntervalSeconds == 30
MinDefaultInterval == 1
MaxDefaultInterval == 86400

\* ----------------------------------------------------------------- values
Min(a, b) == IF a < b THEN a ELSE b
Max(a, b) == IF a > b THEN a ELSE b
CeilDiv(a, b) == (a + b - 1) \div b

Nil == << >>
Some(x) == << x >>
IsNil(p) == Len(p) = 0
Deref(p) == p[1]

EmptyString == << >>
Slash == "/"
OwnerA == << "a" >>
RepoW == << "w" >>
RepoAW == << "a", "/", "w" >>
RepoNoSlash == << "a" >>
RepoNoName == << "a", "/" >>
Wildcard == << "*" >>
OwnerB == << "b" >>
RepoBW == << "b", "/", "w" >>
EntryEmptyOwner == << "/", "w" >>
Acme == << "a", "c", "m", "e" >>
Widgets == << "w", "i", "d", "g", "e", "t", "s" >>
AcmeWidgets == Acme \o << "/" >> \o Widgets
EntryThreeParts == << "a", "/", "w", "/", "w" >>

\* strings.Split(s, "/"): the segments of s between separators.
RECURSIVE Split(_, _)
Split(s, sep) ==
    IF \A i \in 1..Len(s) : s[i] # sep
    THEN << s >>
    ELSE LET k == CHOOSE i \in 1..Len(s) :
                     s[i] = sep /\ \A j \in 1..(i - 1) : s[j] # sep
         IN << SubSeq(s, 1, k - 1) >> \o Split(SubSeq(s, k + 1, Len(s)), sep)

\* ------------------------------------------------------------------ state
VARIABLES
    cfg,              \* gc.config (fixed after construction)
    now,              \* the wall clock, seconds
    cancelled,        \* ctx.Done() is closed
    pc,               \* position of the run goroutine
    quota,            \* rateLimitTotal, rateLimitRemaining, rateLimitReset, lastRateLimitCheck
    limiter,          \* gc.limiter: the rate.Limiter currently installed
    gauges,           \* the metrics sink: gauge key -> value
    apiErrors,        \* GitHubAPIErrorsTotal: <<endpoint, error_type>> -> count
    refreshInterval,  \* run's local refreshInterval (0 before the ticker exists)
    tickerNext,       \* when the ticker fires next
    ticks,            \* ticks handled so far
    loop,             \* loop variables of the stage in progress
    cyc,              \* bookkeeping of the cycle in progress
    win               \* bookkeeping since the last successful quota refresh

vars == << cfg, now, cancelled, pc, quota, limiter, gauges, apiErrors,
           refreshInterval, tickerNext, ticks, loop, cyc, win >>

\* ----------------------------------------------------------- configuration
\* config.Config as Validate accepts it: at least one org or repo, a buffer
\* in (0, 1], a default interval of 1 s .. 24 h.
MkConfig(orgs, repos, branches, bufNum, bufDen, fixed) ==
    [ Orgs |-> orgs, Repos |-> repos, Branches |-> branches,
      RateLimitBufferNum |-> bufNum, RateLimitBufferDen |-> bufDen,
      RefreshInterval |-> fixed, DefaultInterval |-> DefaultIntervalSeconds ]

\* One repository and one branch, adaptive interval.
CfgRepoBranch == MkConfig(<< >>, << RepoAW >>, << "main" >>, 4, 5, 0)
\* One organization and one repository, no branches.
CfgOrgRepo == MkConfig(<< OwnerA >>, << RepoAW >>, << >>, 4, 5, 0)
\* A malformed entry before a good one, a fixed interval of ten minutes.
CfgOrgTwoRepos ==
    MkConfig(<< OwnerA >>, << RepoNoSlash, RepoAW >>, << >>, 1, 2, 2 * FiveMinutes)
\* An entry with an empty name, a fixed interval of thirty seconds.
CfgEmptyName == MkConfig(<< OwnerA >>, << RepoNoName >>, << "main" >>, 4, 5, MinInterval)
\* The wildcard.
CfgWildcard == MkConfig(<< >>, << Wildcard >>, << "main" >>, 1, 1, 0)
\* One repository, adaptive interval, half of the quota used.
CfgAdaptive == MkConfig(<< >>, << RepoAW >>, << >>, 1, 2, 0)
\* One repository, a fixed interval of exactly five minutes.
CfgFixed == MkConfig(<< >>, << RepoAW >>, << >>, 4, 5, FiveMinutes)

\* Two organizations and three repositories, no branches, adaptive interval.
CfgTwoOrgsThreeRepos ==
    MkConfig(<< OwnerA, OwnerB >>, << RepoAW, RepoBW, RepoNoSlash >>, << >>, 4, 5, 0)
\* Two repositories and two branches, adaptive interval.
CfgTwoBranches == MkConfig(<< OwnerA >>, << RepoAW, RepoBW >>, << "main", "dev" >>, 4, 5, 0)
\* Fixed intervals below thirty seconds and above one hour.
CfgShortFixed == MkConfig(<< >>, << RepoAW >>, << >>, 4, 5, ShortWindow)
CfgLongFixed == MkConfig(<< >>, << RepoAW >>, << >>, 4, 5, 2 * OneHour)
\* The smallest and the largest default interval validateMetricsConfig accepts.
CfgShortDefault == [ CfgOrgRepo EXCEPT !.DefaultInterval = MinDefaultInterval ]
CfgLongDefault == [ CfgOrgRepo EXCEPT !.DefaultInterval = MaxDefaultInterval ]

\* The wildcard and no branches.
CfgWildcardOnly == MkConfig(<< >>, << Wildcard >>, << >>, 4, 5, 0)
\* Two organizations and one repository, no branches.
CfgTwoOrgs == MkConfig(<< OwnerA, OwnerB >>, << RepoAW >>, << >>, 4, 5, 0)
\* The repository acme/widgets and the branch main, no organizations.
CfgAcme == MkConfig(<< >>, << AcmeWidgets >>, << "main" >>, 4, 5, 0)
\* An organization with an empty name and an entry with an empty repository
\* name, each before a well-formed one.
CfgEmptyLabels ==
    MkConfig(<< EmptyString, OwnerA >>, << RepoNoName, RepoAW >>, << "main" >>, 4, 5, 0)
\* Every kind of malformed entry, a good entry among them and one at the end.
CfgMalformed ==
    MkConfig(<< >>,
             << RepoNoSlash, RepoAW, RepoNoName, EntryEmptyOwner, EntryThreeParts, RepoBW >>,
             << >>, 4, 5, 0)

IntervalConfigs ==
    { CfgTwoOrgsThreeRepos, CfgTwoBranches, CfgShortFixed, CfgLongFixed,
      CfgShortDefault, CfgLongDefault, CfgRepoBranch, CfgAdaptive, CfgFixed }

ExplicitConfigs == { CfgRepoBranch, CfgOrgRepo, CfgOrgTwoRepos, CfgEmptyName }
QuotaConfigs == { CfgAdaptive, CfgFixed }
Configs == ExplicitConfigs \cup QuotaConfigs \cup { CfgWildcard }

\* int(float64(n) * gc.config.GitHub.RateLimitBuffer)
ApplyBuffer(n) == (n * cfg.RateLimitBufferNum) \div cfg.RateLimitBufferDen

\* --------------------------------------------------------------- limiter
\* rate.NewLimiter(num/den, b): a bucket that starts full.
NewLimiter(num, den, b, t, g) ==
    [ rateNum |-> num, rateDen |-> den, burst |-> b,
      tokens |-> b * den, last |-> t, gen |-> g ]

\* Tokens (times rateDen) in the bucket at time t.
TokensAt(lim, t) ==
    Min(lim.burst * lim.rateDen, lim.tokens + lim.rateNum * (t - lim.last))

\* Seconds Wait sleeps before its token is available (0 for a limiter of
\* rate 0, whose Wait does not sleep: see WaitSucceeds).
WaitDelay(lim, t) ==
    IF TokensAt(lim, t) >= lim.rateDen \/ lim.rateNum = 0
    THEN 0
    ELSE CeilDiv(lim.rateDen - TokensAt(lim, t), lim.rateNum)

\* limiter.Wait(ctx) returns nil: the context is live and the bucket holds,
\* or will hold, a token.  A limiter of rate 0 never refills.
WaitSucceeds ==
    /\ ~cancelled
    /\ (TokensAt(limiter, now) >= limiter.rateDen \/ limiter.rateNum > 0)

\* The limiter after Wait has taken its token at time t.
Acquire(lim, t) ==
    [ lim EXCEPT !.tokens = TokensAt(lim, t) - lim.rateDen, !.last = t ]

\* ------------------------------------------------------------------ sink
\* GaugeVec.With(labels).Set(v) for each <<key, v>> of ws, in order.
RECURSIVE WriteAll(_, _)
WriteAll(g, ws) ==
    IF ws = << >>
    THEN g
    ELSE LET key == Head(ws)[1]
             g1 == (key :> Head(ws)[2]) @@ g
         IN WriteAll(g1, Tail(ws))

Keys(ws) == { ws[i][1] : i \in 1..Len(ws) }

\* CounterVec.With(labels).Inc()
Inc(c, key) ==
    (key :> (IF key \in DOMAIN c THEN c[key] + 1 ELSE 1)) @@ c

\* --------------------------------------------------------- initial state
CycInit ==
    [ tokens |-> 0, calls |-> 0, entityCalls |-> 0, written |-> {},
      stages |-> << >>, refresh |-> "none", orgFailed |-> {}, orgListed |-> {},
      pages |-> << >>, search |-> << >>, failed |-> {}, access |-> {},
      resp |-> << >>, errored |-> FALSE, fetched |-> {} ]

LoopInit ==
    [ i |-> 1, b |-> 1, page |-> 1, all |-> << >>, j |-> 1,
      pub |-> 0, priv |-> 0, info |-> Nil, runs |-> << >>, args |-> << >> ]

\* NewGitHubCollector, then run's first statement is reached.
Constructed ==
    /\ now = Epoch
    /\ cancelled = FALSE
    /\ pc = "rate_limits"
    /\ quota = [ limit |-> 0, remaining |-> 0, reset |-> 0, lastCheck |-> 0 ]
    /\ limiter = NewLimiter(InitialRate, 1, Burst, Epoch, 0)
    /\ gauges = << >>
    /\ apiErrors = << >>
    /\ refreshInterval = 0
    /\ tickerNext = 0
    /\ ticks = 0
    /\ loop = LoopInit
    /\ cyc = CycInit
    /\ win = [ set |-> FALSE, remaining |-> 0, reset |-> 0, calls |-> 0 ]

Init == cfg \in Configs /\ Constructed

\* ------------------------------------------------------------- gc.mu
\* One access to the state gc.mu guards: the field group, read or write,
\* and how gc.mu is held at that statement.
LockedQuotaRead == << "quota", "read", "RLock" >>
LockedQuotaWrite == << "quota", "write", "Lock" >>
LockedLimiterWrite == << "limiter", "write", "Lock" >>
BareLimiterRead == << "limiter", "read", "none" >>

Access(c, as) == [ c EXCEPT !.access = @ \cup as ]

\* gc.limiter.Wait(ctx): gc.limiter is evaluated with gc.mu not held.
Waited(c) == Access(c, { BareLimiterRead })

\* The accesses of updateRateLimits: lastRateLimitCheck is read, then (when
\* the check is due) the limiter is used, then (when RateLimit.Get answered)
\* the quota fields are written, re-read by updateRateLimiter, and the
\* limiter is replaced unless updateRateLimiter returned early.
RefreshAccesses(outcome, q) ==
    { LockedQuotaRead }
    \cup (IF outcome # "skipped" THEN { BareLimiterRead } ELSE {})
    \cup (IF outcome = "ok" THEN { LockedQuotaWrite } ELSE {})
    \cup (IF outcome = "ok" /\ ~(q.remaining <= 0 \/ q.reset = 0)
          THEN { LockedLimiterWrite } ELSE {})

\* --------------------------------------------------- one throttled call
\* The moment a call gated by limiter.Wait goes out.
CallTime == now + WaitDelay(limiter, now)

\* limiter.Wait(ctx) returns an error: no token is taken, no call follows.
WaitFailed == ~WaitSucceeds

\* A check-run listing that goes out without limiter.Wait.
Called_CheckRunsUngated(c, kind) ==
    [ c EXCEPT !.tokens = @ + (IF kind = "check_runs" THEN 0 ELSE 1),
               !.calls = @ + 1,
               !.entityCalls = @ + (IF kind = "rate_limit" THEN 0 ELSE 1) ]

\* The cycle's bookkeeping after one token was taken and the call `kind` issued.
Called(c, kind) ==
    [ Waited(c) EXCEPT !.tokens = @ + 1, !.calls = @ + 1,
                       !.entityCalls = @ + (IF kind = "rate_limit" THEN 0 ELSE 1) ]

\* limiter.Wait and, when it returned nil (called), the upstream call it
\* gates: their effect on the clock, the bucket and the window's call count.
Gate(called) ==
    /\ now' = IF called THEN CallTime ELSE now
    /\ limiter' = IF called THEN Acquire(limiter, CallTime) ELSE limiter
    /\ win' = IF called THEN [ win EXCEPT !.calls = @ + 1 ] ELSE win

\* ------------------------------------------------------------ the quota
\* What client.RateLimit.Get can answer: an error, or a response whose Core
\* is nil or carries limit, remaining and a reset time that is unset, already
\* past, or ResetWindow seconds ahead.
QuotaError ==
    [ kind |-> "error", core |-> FALSE, limit |-> 0, remaining |-> 0, reset |-> "zero" ]
QuotaNoCore ==
    [ kind |-> "ok", core |-> FALSE, limit |-> 0, remaining |-> 0, reset |-> "zero" ]
QuotaOk(limit, remaining, reset) ==
    [ kind |-> "ok", core |-> TRUE, limit |-> limit, remaining |-> remaining,
      reset |-> reset ]

ResetAt(tag, t) ==
    CASE tag = "zero" -> 0
      [] tag = "past" -> t - PastOffset
      [] OTHER -> t + ResetWindow

\* The skip test with <= in place of <.
RateLimitCheckDue_Inclusive(lastCheck, t) ==
    ~((t - lastCheck <= FiveMinutes) /\ lastCheck # 0)

\* updateRateLimits: time.Since(lastCheck) < 5*time.Minute && !lastCheck.IsZero()
\* skips the check; otherwise the check is due.
RateLimitCheckDue(lastCheck, t) ==
    ~((t - lastCheck < FiveMinutes) /\ lastCheck # 0)

\* updateRateLimits: the write-locked update of the quota fields.
QuotaAfter(q, resp, t) ==
    IF resp.core
    THEN [ limit |-> resp.limit, remaining |-> resp.remaining,
           reset |-> IF resp.reset # 0 THEN resp.reset ELSE q.reset,
           lastCheck |-> t ]
    ELSE [ q EXCEPT !.lastCheck = t ]

\* updateRateLimits: the rate-limit gauges set from the response.
QuotaWrites(resp) ==
    IF resp.core
    THEN << << << "rate_limit_total" >>, resp.limit >>,
            << << "rate_limit_remaining" >>, resp.remaining >> >>
         \o (IF resp.reset # 0
             THEN << << << "rate_limit_reset" >>, resp.reset >> >>
             ELSE << >>)
    ELSE << >>

\* time.Until(reset), with the code's fallback of one hour.
UntilResetOrHour(reset, t) == IF reset - t <= 0 THEN OneHour ELSE reset - t

\* updateRateLimiter without the remaining <= 0 test.
updateRateLimiter_NoRemainingTest(lim, q, t) ==
    IF q.reset = 0
    THEN lim
    ELSE NewLimiter(ApplyBuffer(q.remaining), UntilResetOrHour(q.reset, t),
                    Burst, t, lim.gen + 1)

\* updateRateLimiter without the buffer.
updateRateLimiter_NoBuffer(lim, q, t) ==
    IF q.remaining <= 0 \/ q.reset = 0
    THEN lim
    ELSE NewLimiter(q.remaining, UntilResetOrHour(q.reset, t), Burst, t, lim.gen + 1)

\* updateRateLimiter leaving no limiter behind when it has nothing to go on.
updateRateLimiter_DropsLimiter(lim, q, t) ==
    IF q.remaining <= 0 \/ q.reset = 0
    THEN Nil
    ELSE NewLimiter(ApplyBuffer(q.remaining), UntilResetOrHour(q.reset, t),
                    Burst, t, lim.gen + 1)

\* updateRateLimiter: the limiter installed after the quota fields are set.
updateRateLimiter(lim, q, t) ==
    IF q.remaining <= 0 \/ q.reset = 0
    THEN lim
    ELSE NewLimiter(ApplyBuffer(q.remaining), UntilResetOrHour(q.reset, t),
                    Burst, t, lim.gen + 1)

\* ------------------------------------------------------------- scheduler
\* calculateRefreshInterval: the API calls one cycle is reckoned to need.
\* The reckoning without the rate limit check.
totalCallsPerCycle_NoQuotaCall ==
    Len(cfg.Orgs) * 2 + Len(cfg.Repos)
      + (IF Len(cfg.Branches) > 0 THEN Len(cfg.Repos) * Len(cfg.Branches) * 2 ELSE 0)

totalCallsPerCycle ==
    Len(cfg.Orgs) * 2 + Len(cfg.Repos)
      + (IF Len(cfg.Branches) > 0 THEN Len(cfg.Repos) * Len(cfg.Branches) * 2 ELSE 0)
      + 1

\* calculateRefreshInterval: int(float64(rateLimitRemaining) * RateLimitBuffer)
availableCalls(q) == ApplyBuffer(q.remaining)

\* calculateRefreshInterval: availableCalls / totalCallsPerCycle, at least 1.
cyclesPossible(q) == Max(1, availableCalls(q) \div totalCallsPerCycle)

\* calculateRefreshInterval with the 30 s / 1 h limits applied to a
\* configured interval too.
calculateRefreshInterval_FixedClamped(q, t) ==
    IF cfg.RefreshInterval > 0
    THEN Min(OneHour, Max(MinInterval, cfg.RefreshInterval))
    ELSE IF q.remaining = 0 \/ q.limit = 0
    THEN cfg.DefaultInterval
    ELSE IF availableCalls(q) <= 0
    THEN (IF q.reset - t > 0 THEN q.reset - t ELSE cfg.DefaultInterval)
    ELSE Min(OneHour,
             Max(MinInterval, UntilResetOrHour(q.reset, t) \div cyclesPossible(q)))

\* calculateRefreshInterval without the 30 s / 1 h limits.
calculateRefreshInterval_NoClamp(q, t) ==
    IF cfg.RefreshInterval > 0
    THEN cfg.RefreshInterval
    ELSE IF q.remaining = 0 \/ q.limit = 0
    THEN cfg.DefaultInterval
    ELSE IF availableCalls(q) <= 0
    THEN (IF q.reset - t > 0 THEN q.reset - t ELSE cfg.DefaultInterval)
    ELSE UntilResetOrHour(q.reset, t) \div cyclesPossible(q)

\* calculateRefreshInterval
calculateRefreshInterval(q, t) ==
    IF cfg.RefreshInterval > 0
    THEN cfg.RefreshInterval
    ELSE IF q.remaining = 0 \/ q.limit = 0
    THEN cfg.DefaultInterval
    ELSE IF availableCalls(q) <= 0
    THEN (IF q.reset - t > 0 THEN q.reset - t ELSE cfg.DefaultInterval)
    ELSE LET interval == UntilResetOrHour(q.reset, t) \div cyclesPossible(q)
         IN Min(OneHour, Max(MinInterval, interval))

\* hasWildcardRepos
\* hasWildcardRepos looking at the first entry only.
hasWildcardRepos_FirstOnly == cfg.Repos # << >> /\ cfg.Repos[1] = Wildcard

hasWildcardRepos == \E i \in 1..Len(cfg.Repos) : cfg.Repos[i] = Wildcard

\* The entity the stage in progress is working on: an organization, a
\* repository listed under it, a repository, or a (repository, branch) pair,
\* by its position in the list the stage walks.
CurrentEntity ==
    IF pc \in { "orgs", "org_repos" } THEN << "org", loop.i >>
    ELSE IF pc = "org_repo_each" THEN << "org_repo", loop.i, loop.j >>
    ELSE IF pc \in { "repos", "repo_metrics" } THEN << "repo", loop.i >>
    ELSE IF pc = "all_repos_each" THEN << "repo", loop.j >>
    ELSE IF pc \in { "build_each", "check_runs" }
    THEN << "pair", IF hasWildcardRepos THEN loop.j ELSE loop.i, loop.b >>
    ELSE << pc >>

\* The cycle's record of the entities one of whose calls failed: the call
\* was issued and answered anything but success.
Failed(c, called, ans) ==
    IF called /\ ans.kind # "ok"
    THEN [ c EXCEPT !.failed = @ \cup { CurrentEntity },
                    !.errored = ans.kind = "error" ]
    ELSE [ c EXCEPT !.errored = FALSE ]

\* The cycle's record of whether its latest upstream call returned an error
\* (err != nil), for the calls that belong to no entity.
Errored(c, called, ans) == [ c EXCEPT !.errored = called /\ ans.kind = "error" ]

\* collectMetrics without the return after the failed update.
AfterQuotaError_Continue == "cycle_wait"

\* collectMetrics: where the cycle goes once updateRateLimits returned an error.
AfterQuotaError == "cycle_end"

\* collectMetrics: the stage that follows the organization stage.
ReposEntry == IF hasWildcardRepos THEN "all_repos" ELSE "repos"

\* collectMetrics: what follows the repository stage.
BuildEntry ==
    IF Len(cfg.Branches) > 0
    THEN (IF hasWildcardRepos THEN "build_all" ELSE "build_each")
    ELSE "cycle_end"

\* The cycle's record of the stages collectMetrics has entered.
EnterStage(c, p) ==
    IF p \in { "all_repos", "repos" } THEN [ c EXCEPT !.stages = Append(@, "repos") ]
    ELSE IF p \in { "build_all", "build_each" } THEN [ c EXCEPT !.stages = Append(@, "build") ]
    ELSE c

\* How updateRateLimits ends when RateLimit.Get would answer ans.
RefreshOutcome(ans) ==
    IF ~RateLimitCheckDue(quota.lastCheck, now) THEN "skipped"
    ELSE IF WaitFailed THEN "wait_failed"
    ELSE IF ans.kind = "error" THEN "call_failed"
    ELSE "ok"

\* The window a successful refresh opens: the remaining calls it reported
\* and the reset time it reported.
WindowAfter(w, outcome, resp) ==
    IF outcome = "ok" /\ resp.core /\ resp.reset # 0
    THEN [ set |-> TRUE, remaining |-> resp.remaining, reset |-> resp.reset,
           calls |-> 0 ]
    ELSE IF outcome \in { "ok", "call_failed" }
    THEN [ w EXCEPT !.calls = @ + 1 ]
    ELSE w

\* collectMetrics: gc.updateRateLimits(spanCtx) and the handling of its
\* error.  The check is skipped, or the limiter's Wait fails, or
\* RateLimit.Get fails, or it answers and the quota fields, the gauges and
\* (updateRateLimiter) the limiter are updated.
UpdateRateLimits(ans) ==
    /\ pc = "rate_limits"
    /\ LET outcome == RefreshOutcome(ans)
           called == outcome \in { "call_failed", "ok" }
           t == IF called THEN CallTime ELSE now
           resp == [ core |-> ans.core, limit |-> ans.limit,
                     remaining |-> ans.remaining, reset |-> ResetAt(ans.reset, t) ]
           q == IF outcome = "ok" THEN QuotaAfter(quota, resp, t) ELSE quota
           ws == IF outcome = "ok" THEN QuotaWrites(resp) ELSE << >>
           failed == outcome \in { "wait_failed", "call_failed" }
       IN /\ now' = t
          /\ quota' = q
          /\ limiter' = IF outcome = "ok"
                        THEN updateRateLimiter(Acquire(limiter, t), q, t)
                        ELSE IF called THEN Acquire(limiter, t) ELSE limiter
          /\ gauges' = WriteAll(gauges, ws)
          /\ apiErrors' = IF failed
                          THEN Inc(apiErrors, << "rate_limit", "update_error" >>)
                          ELSE apiErrors
          /\ cyc' = [ Access(IF called THEN Called(cyc, "rate_limit") ELSE cyc,
                             RefreshAccesses(outcome, q)) EXCEPT
                        !.refresh = outcome, !.written = @ \cup Keys(ws),
                        !.resp = IF outcome = "ok" THEN << resp >> ELSE << >>,
                        !.errored = outcome = "call_failed" ]
          /\ win' = WindowAfter(win, outcome, resp)
          /\ pc' = IF failed THEN AfterQuotaError ELSE "cycle_wait"
    /\ UNCHANGED << cfg, cancelled, refreshInterval, tickerNext, ticks, loop >>

\* collectMetrics: gc.limiter.Wait before the stages.  No call follows the
\* token it takes; when it fails the cycle ends.
CycleWait ==
    /\ pc = "cycle_wait"
    /\ LET ok == WaitSucceeds
       IN /\ now' = IF ok THEN CallTime ELSE now
          /\ limiter' = IF ok THEN Acquire(limiter, CallTime) ELSE limiter
          /\ cyc' = IF ok
                    THEN [ Waited(cyc) EXCEPT !.tokens = @ + 1,
                                              !.stages = Append(@, "orgs") ]
                    ELSE Waited(cyc)
          /\ pc' = IF ok THEN "orgs" ELSE "cycle_end"
    /\ loop' = LoopInit
    /\ UNCHANGED << cfg, cancelled, quota, gauges, apiErrors, refreshInterval,
                    tickerNext, ticks, win >>

\* run resetting the ticker after every cycle, the interval changed or not.
AfterCycle_AlwaysReset ==
    /\ pc = "cycle_end"
    /\ LET newInterval == calculateRefreshInterval(quota, now)
       IN /\ refreshInterval' = newInterval
          /\ tickerNext' = now + newInterval
    /\ cyc' = IF cfg.RefreshInterval > 0 THEN cyc
              ELSE Access(cyc, { LockedQuotaRead })
    /\ pc' = "idle"
    /\ UNCHANGED << cfg, now, cancelled, quota, limiter, gauges, apiErrors,
                    ticks, loop, win >>

\* run: after collectMetrics returns the interval is computed; the ticker is
\* created after the first cycle and reset when the interval changed.
AfterCycle ==
    /\ pc = "cycle_end"
    /\ LET newInterval == calculateRefreshInterval(quota, now)
       IN /\ refreshInterval' = newInterval
          /\ tickerNext' = IF newInterval # refreshInterval
                           THEN now + newInterval
                           ELSE tickerNext
    /\ cyc' = IF cfg.RefreshInterval > 0 THEN cyc
              ELSE Access(cyc, { LockedQuotaRead })
    /\ pc' = "idle"
    /\ UNCHANGED << cfg, now, cancelled, quota, limiter, gauges, apiErrors,
                    ticks, loop, win >>

\* run with the handler started on its own whenever the ticker is due, the
\* previous collectMetrics still running or not.
TickUpTo_Concurrent(n) ==
    /\ pc \notin { "stopped", "panicked" }
    /\ tickerNext > 0
    /\ ticks < n
    /\ pc = "idle" \/ now >= tickerNext
    /\ cancelled => now >= tickerNext
    /\ now' = Max(now, tickerNext)
    /\ tickerNext' = tickerNext
                     + refreshInterval * (1 + (now' - tickerNext) \div refreshInterval)
    /\ ticks' = ticks + 1
    /\ cyc' = CycInit
    /\ loop' = LoopInit
    /\ pc' = "rate_limits"
    /\ UNCHANGED << cfg, cancelled, quota, limiter, gauges, apiErrors,
                    refreshInterval, win >>

\* run: the select receives from ticker.C and collectMetrics starts, at most
\* n times.  A tick that fell due while collectMetrics was running is
\* received at once, later ones keep to the ticker's period.  Once
\* ctx.Done() is closed only a tick that is already due can still win.
TickUpTo(n) ==
    /\ pc = "idle"
    /\ ticks < n
    /\ cancelled => now >= tickerNext
    /\ now' = Max(now, tickerNext)
    /\ tickerNext' = tickerNext
                     + refreshInterval * (1 + (now' - tickerNext) \div refreshInterval)
    /\ ticks' = ticks + 1
    /\ cyc' = CycInit
    /\ loop' = LoopInit
    /\ pc' = "rate_limits"
    /\ UNCHANGED << cfg, cancelled, quota, limiter, gauges, apiErrors,
                    refreshInterval, win >>

Tick == TickUpTo(MaxTicks)

\* run: the select receives from ctx.Done() and the goroutine returns.
Shutdown ==
    /\ pc = "idle"
    /\ cancelled
    /\ pc' = "stopped"
    /\ UNCHANGED << cfg, now, cancelled, quota, limiter, gauges, apiErrors,
                    refreshInterval, tickerNext, ticks, loop, cyc, win >>

\* The context passed to Start is cancelled.
Cancel ==
    /\ ~cancelled
    /\ pc \notin { "stopped", "panicked" }
    /\ cancelled' = TRUE
    /\ UNCHANGED << cfg, now, pc, quota, limiter, gauges, apiErrors,
                    refreshInterval, tickerNext, ticks, loop, cyc, win >>

\* ------------------------------------------------- per-repository metrics
\* github.Repository values the upstream can return.
RepoFull ==
    [ Name |-> Some(RepoW), Owner |-> Some([ Login |-> Some(OwnerA) ]),
      Private |-> Some(TRUE), Archived |-> Nil, Fork |-> Nil, Language |-> Nil,
      StargazersCount |-> Some(10), ForksCount |-> Some(1),
      WatchersCount |-> Some(4), OpenIssuesCount |-> Some(2), Size |-> Some(7),
      UpdatedAt |-> Some(900), CreatedAt |-> Some(800) ]

RepoBare ==
    [ Name |-> Some(RepoW), Owner |-> Some([ Login |-> Some(OwnerA) ]),
      Private |-> Nil, Archived |-> Nil, Fork |-> Nil, Language |-> Nil,
      StargazersCount |-> Nil, ForksCount |-> Nil, WatchersCount |-> Nil,
      OpenIssuesCount |-> Nil, Size |-> Nil, UpdatedAt |-> Nil, CreatedAt |-> Nil ]

RepoNoLogin == [ RepoBare EXCEPT !.Owner = Some([ Login |-> Nil ]) ]
RepoNoOwner == [ RepoBare EXCEPT !.Owner = Nil ]
RepoNilName == [ RepoBare EXCEPT !.Name = Nil ]

\* What Search.Issues can answer in setOpenPRsMetric.
PrError == [ kind |-> "error", total |-> Nil ]
PrOk(total) == [ kind |-> "ok", total |-> total ]

Visibility(info) ==
    IF ~IsNil(info.Private) /\ Deref(info.Private) THEN "private" ELSE "public"

BoolLabel(p) == IF ~IsNil(p) /\ Deref(p) THEN "true" ELSE "false"

\* One optional numeric field set to 1, as the info sample is.
Field_Constant(name, owner, repo, vis, p) ==
    IF IsNil(p) THEN << >> ELSE << << << name, owner, repo, vis >>, 1 >> >>

\* One optional numeric field: a write when the pointer is set.
Field(name, owner, repo, vis, p) ==
    IF IsNil(p) THEN << >> ELSE << << << name, owner, repo, vis >>, Deref(p) >> >>

\* setRepoMetrics: the gauges set before the open-PR search.
RepoWritesBefore(owner, repo, vis, info) ==
    << << << "repos_info", owner, repo, vis, BoolLabel(info.Archived),
             BoolLabel(info.Fork),
             IF IsNil(info.Language) THEN "" ELSE Deref(info.Language) >>, 1 >> >>
    \o Field("repos_stars", owner, repo, vis, info.StargazersCount)
    \o Field("repos_forks", owner, repo, vis, info.ForksCount)
    \o Field("repos_watchers", owner, repo, vis, info.WatchersCount)
    \o Field("repos_open_issues", owner, repo, vis, info.OpenIssuesCount)

\* setOpenPRsMetric setting the gauge to 0 when the search fails.
OpenPRsWrites_ZeroOnError(owner, repo, vis, pr) ==
    << << << "repos_open_prs", owner, repo, vis >>,
          IF pr.kind = "ok" /\ ~IsNil(pr.total) THEN Deref(pr.total) ELSE 0 >> >>

\* setOpenPRsMetric: the gauge set from the search result.
OpenPRsWrites(owner, repo, vis, pr) ==
    IF pr.kind = "ok"
    THEN << << << "repos_open_prs", owner, repo, vis >>,
               IF IsNil(pr.total) THEN 0 ELSE Deref(pr.total) >> >>
    ELSE << >>

\* setRepoMetrics: the gauges set after the open-PR search.
RepoWritesAfter(owner, repo, vis, info) ==
    Field("repos_size", owner, repo, vis, info.Size)
    \o Field("repos_last_updated", owner, repo, vis, info.UpdatedAt)
    \o Field("repos_created_at", owner, repo, vis, info.CreatedAt)

\* setRepoMetrics(ctx, owner, repo, visibility, repoInfo), Search.Issues
\* answering pr: what it does to the sink, the limiter, the clock and the
\* counters.  Nothing is emitted for an empty owner or name; the open-PR
\* gauge is set only when the limiter's Wait and the search both succeed.
setRepoMetrics(owner, repo, vis, info, pr) ==
    LET emits == owner # EmptyString /\ repo # EmptyString
        called == emits /\ WaitSucceeds
        ws == IF emits
              THEN RepoWritesBefore(owner, repo, vis, info)
                   \o (IF called THEN OpenPRsWrites(owner, repo, vis, pr) ELSE << >>)
                   \o RepoWritesAfter(owner, repo, vis, info)
              ELSE << >>
    IN /\ Gate(called)
       /\ gauges' = WriteAll(gauges, ws)
       /\ apiErrors' = IF called /\ pr.kind = "error"
                       THEN Inc(apiErrors, << "search_issues", "api_error" >>)
                       ELSE apiErrors
       /\ cyc' = [ Failed(IF called THEN Called(cyc, "search_issues")
                          ELSE IF emits THEN Waited(cyc) ELSE cyc, called, pr)
                     EXCEPT !.written = @ \cup Keys(ws),
                            !.search = IF called THEN << pr >> ELSE << >> ]

\* setRepoMetrics called on its own with the owner and name of loop.args
\* and the repository of loop.info.
SetRepoMetricsCall(pr) ==
    /\ pc = "set_repo_metrics"
    /\ LET info == Deref(loop.info)
       IN setRepoMetrics(loop.args[1], loop.args[2], Visibility(info), info, pr)
    /\ pc' = "returned"
    /\ UNCHANGED << cfg, cancelled, quota, refreshInterval, tickerNext, ticks, loop >>

\* -------------------------------------------------- organization stage
OrgFull == [ PublicRepos |-> Some(3), Followers |-> Some(8), Following |-> Some(0) ]
OrgBare == [ PublicRepos |-> Nil, Followers |-> Nil, Following |-> Nil ]

\* What Organizations.Get can answer: an error, 404 without an error, no
\* body, or the organization.
OrgError == [ kind |-> "error", info |-> Nil ]
OrgNotFound == [ kind |-> "not_found", info |-> Nil ]
OrgNoBody == [ kind |-> "no_body", info |-> Nil ]
OrgOk(info) == [ kind |-> "ok", info |-> Some(info) ]

\* What Repositories.ListByOrg can answer.
ListError == [ kind |-> "error", repos |-> << >> ]
ListNotFound == [ kind |-> "not_found", repos |-> << >> ]
ListOk(repos) == [ kind |-> "ok", repos |-> repos ]

OrgField(name, org, p) ==
    IF IsNil(p) THEN << >> ELSE << << << name, org >>, Deref(p) >> >>

\* collectOrgMetrics: the gauges set from the organization.
OrgWrites(org, info) ==
    OrgField("orgs_public_repos", org, info.PublicRepos)
    \o OrgField("orgs_followers", org, info.Followers)
    \o OrgField("orgs_following", org, info.Following)

CurrentOrg == cfg.Orgs[loop.i]

NextOrg == [ LoopInit EXCEPT !.i = loop.i + 1 ]

\* collectOrgMetrics: the loop is over; the organization count is set and
\* collectMetrics moves on to the repository stage.
OrgsDone ==
    /\ pc = "orgs"
    /\ loop.i > Len(cfg.Orgs)
    /\ gauges' = WriteAll(gauges, << << << "orgs_total" >>, Len(cfg.Orgs) >> >>)
    /\ cyc' = [ EnterStage(cyc, ReposEntry) EXCEPT !.written = @ \cup { << "orgs_total" >> } ]
    /\ loop' = LoopInit
    /\ pc' = ReposEntry
    /\ UNCHANGED << cfg, now, cancelled, quota, limiter, apiErrors,
                    refreshInterval, tickerNext, ticks, win >>

\* The cycle's record of the organizations (by position in Orgs) whose
\* lookup answered an error or a 404.
LookupAnswered(c, i, called, ans) ==
    IF called /\ ans.kind \in { "error", "not_found" }
    THEN [ c EXCEPT !.orgFailed = @ \cup { i } ]
    ELSE c

\* collectOrgMetrics without the 404 test: the organization of a 404
\* response is treated as found.
OrgGet_NotFoundEntered(ans) ==
    /\ pc = "orgs"
    /\ loop.i <= Len(cfg.Orgs)
    /\ LET called == WaitSucceeds
           entered == called /\ ans.kind \in { "ok", "not_found" }
           ws == IF called /\ ans.kind = "ok"
                 THEN OrgWrites(CurrentOrg, Deref(ans.info)) ELSE << >>
       IN /\ Gate(called)
          /\ gauges' = WriteAll(gauges, ws)
          /\ apiErrors' = IF called /\ ans.kind = "error"
                          THEN Inc(apiErrors, << "orgs", "api_error" >>)
                          ELSE apiErrors
          /\ cyc' = [ Failed(LookupAnswered(IF called THEN Called(cyc, "orgs") ELSE Waited(cyc),
                                            loop.i, called, ans), called, ans)
                        EXCEPT !.written = @ \cup Keys(ws) ]
          /\ loop' = IF entered THEN [ loop EXCEPT !.info = ans.info ] ELSE NextOrg
          /\ pc' = IF entered THEN "org_repos" ELSE "orgs"
    /\ UNCHANGED << cfg, cancelled, quota, refreshInterval, tickerNext, ticks >>

\* collectOrgMetrics, one organization: limiter.Wait, Organizations.Get
\* answering ans, the organization's gauges.  A failed wait, an error, a 404
\* or a missing body moves on to the next organization.
OrgGet(ans) ==
    /\ pc = "orgs"
    /\ loop.i <= Len(cfg.Orgs)
    /\ LET called == WaitSucceeds
           entered == called /\ ans.kind = "ok"
           ws == IF entered THEN OrgWrites(CurrentOrg, Deref(ans.info)) ELSE << >>
       IN /\ Gate(called)
          /\ gauges' = WriteAll(gauges, ws)
          /\ apiErrors' = IF called /\ ans.kind = "error"
                          THEN Inc(apiErrors, << "orgs", "api_error" >>)
                          ELSE apiErrors
          /\ cyc' = [ Failed(LookupAnswered(IF called THEN Called(cyc, "orgs") ELSE Waited(cyc),
                                            loop.i, called, ans), called, ans)
                        EXCEPT !.written = @ \cup Keys(ws) ]
          /\ loop' = IF entered THEN [ loop EXCEPT !.info = ans.info ] ELSE NextOrg
          /\ pc' = IF entered THEN "org_repos" ELSE "orgs"
    /\ UNCHANGED << cfg, cancelled, quota, refreshInterval, tickerNext, ticks >>

\* collectOrgRepos up to its loop: the org check, limiter.Wait and ListByOrg
\* answering ans.  An error or a 404 leaves the organization.
OrgReposList(ans) ==
    /\ pc = "org_repos"
    /\ LET called == CurrentOrg # EmptyString /\ WaitSucceeds
           listed == called /\ ans.kind = "ok"
       IN /\ Gate(called)
          /\ cyc' = Failed(IF called
                           THEN [ Called(cyc, "org_repos")
                                    EXCEPT !.orgListed = @ \cup { loop.i } ]
                           ELSE IF CurrentOrg # EmptyString THEN Waited(cyc)
                           ELSE cyc, called, ans)
          /\ loop' = IF listed THEN [ loop EXCEPT !.all = ans.repos ] ELSE NextOrg
          /\ pc' = IF listed THEN "org_repo_each" ELSE "orgs"
    /\ UNCHANGED << cfg, cancelled, quota, gauges, apiErrors,
                    refreshInterval, tickerNext, ticks >>

\* A listed repository that collectOrgRepos processes.
OrgRepoUsable(r) ==
    /\ ~IsNil(r)
    /\ ~IsNil(Deref(r).Name)
    /\ Deref(Deref(r).Name) # EmptyString

\* collectOrgRepos, one listed repository: skipped without a name, else
\* counted by visibility and passed to setRepoMetrics.
OrgRepoEach(pr) ==
    /\ pc = "org_repo_each"
    /\ loop.j <= Len(loop.all)
    /\ IF OrgRepoUsable(loop.all[loop.j])
       THEN LET info == Deref(loop.all[loop.j])
            IN /\ setRepoMetrics(CurrentOrg, Deref(info.Name), Visibility(info),
                                 info, pr)
               /\ loop' = [ loop EXCEPT
                              !.j = @ + 1,
                              !.pub = @ + (IF Visibility(info) = "public" THEN 1 ELSE 0),
                              !.priv = @ + (IF Visibility(info) = "public" THEN 0 ELSE 1) ]
       ELSE /\ loop' = [ loop EXCEPT !.j = @ + 1 ]
            /\ UNCHANGED << now, limiter, win, gauges, apiErrors, cyc >>
    /\ UNCHANGED << cfg, cancelled, pc, quota, refreshInterval, tickerNext, ticks >>

\* collectOrgRepos: after the loop the per-visibility counts are set.
OrgReposFinish ==
    /\ pc = "org_repo_each"
    /\ loop.j > Len(loop.all)
    /\ LET ws == << << << "repos_total", CurrentOrg, "public" >>, loop.pub >>,
                    << << "repos_total", CurrentOrg, "private" >>, loop.priv >> >>
       IN /\ gauges' = WriteAll(gauges, ws)
          /\ cyc' = [ cyc EXCEPT !.written = @ \cup Keys(ws) ]
    /\ loop' = NextOrg
    /\ pc' = "orgs"
    /\ UNCHANGED << cfg, now, cancelled, quota, limiter, apiErrors,
                    refreshInterval, tickerNext, ticks, win >>

\* ---------------------------------------------------- repository stage
\* What Repositories.Get can answer.
RepoError == [ kind |-> "error", info |-> Nil ]
RepoOk(info) == [ kind |-> "ok", info |-> Some(info) ]

CurrentRepoParts == Split(cfg.Repos[loop.i], Slash)

\* The format check without the test for empty segments.
RepoEntryValid_LenOnly(parts) == Len(parts) = 2

\* collectRepoMetrics: an entry is "owner/name" with both segments non-empty.
RepoEntryValid(parts) ==
    /\ Len(parts) = 2
    /\ parts[1] # EmptyString
    /\ parts[2] # EmptyString

\* The repository loop staying at its entry.
NextRepo_SameEntry == [ LoopInit EXCEPT !.i = loop.i ]

NextRepo == [ LoopInit EXCEPT !.i = loop.i + 1 ]

\* collectRepoMetrics returns; collectMetrics moves on.
ReposDone ==
    /\ pc = "repos"
    /\ loop.i > Len(cfg.Repos)
    /\ cyc' = EnterStage(cyc, BuildEntry)
    /\ loop' = LoopInit
    /\ pc' = BuildEntry
    /\ UNCHANGED << cfg, now, cancelled, quota, limiter, gauges, apiErrors,
                    refreshInterval, tickerNext, ticks, win >>

\* collectRepoMetrics, one entry: the format checks, limiter.Wait and
\* Repositories.Get answering ans.  A malformed entry, a failed wait or an
\* error moves on to the next entry.
RepoEntry(ans) ==
    /\ pc = "repos"
    /\ loop.i <= Len(cfg.Repos)
    /\ LET called == RepoEntryValid(CurrentRepoParts) /\ WaitSucceeds
           fetched == called /\ ans.kind = "ok"
       IN /\ Gate(called)
          /\ apiErrors' = IF called /\ ans.kind = "error"
                          THEN Inc(apiErrors, << "repos", "api_error" >>)
                          ELSE apiErrors
          /\ cyc' = Failed(IF called
                           THEN [ Called(cyc, "repos") EXCEPT !.fetched = @ \cup { loop.i } ]
                           ELSE IF RepoEntryValid(CurrentRepoParts) THEN Waited(cyc)
                           ELSE cyc, called, ans)
          /\ loop' = IF fetched THEN [ loop EXCEPT !.info = ans.info ] ELSE NextRepo
          /\ pc' = IF fetched THEN "repo_metrics" ELSE "repos"
    /\ UNCHANGED << cfg, cancelled, quota, gauges, refreshInterval, tickerNext, ticks >>

\* collectRepoMetrics: setRepoMetrics for the repository just fetched.
RepoSetMetrics(pr) ==
    /\ pc = "repo_metrics"
    /\ LET info == Deref(loop.info)
       IN setRepoMetrics(CurrentRepoParts[1], CurrentRepoParts[2],
                         Visibility(info), info, pr)
    /\ loop' = NextRepo
    /\ pc' = "repos"
    /\ UNCHANGED << cfg, cancelled, quota, refreshInterval, tickerNext, ticks >>

\* ------------------------------------------- accessible-repository listing
SeqsUpTo(S, n) == UNION { [ 1..k -> S ] : k \in 0..n }

\* What ListByAuthenticatedUser can answer: an error, or a page of at most
\* PerPage entries with resp.LastPage.
PageError == [ kind |-> "error", repos |-> << >>, lastPage |-> 0 ]
PageOk(repos, lastPage) == [ kind |-> "ok", repos |-> repos, lastPage |-> lastPage ]

\* The upstream listing is finite: it holds MaxPages pages at most.
PageWithinListing(page) ==
    loop.page < MaxPages \/ Len(page.repos) < PerPage \/ page.lastPage <= loop.page

\* The last-page test without the short-page test.
LastPageReached_IgnoreShort(page) == loop.page >= page.lastPage

\* page >= resp.LastPage || len(repos) < perPage
LastPageReached(page) ==
    loop.page >= page.lastPage \/ Len(page.repos) < PerPage

\* collectAllRepos, one turn of the paging loop: limiter.Wait and
\* ListByAuthenticatedUser answering ans.  A failed wait or an error ends the
\* stage, and collectMetrics counts the stage error.
AllReposPage(ans) ==
    /\ pc = "all_repos"
    /\ PageWithinListing(ans)
    /\ LET called == WaitSucceeds
           got == called /\ ans.kind = "ok"
           more == got /\ ~LastPageReached(ans)
           after == IF got THEN (IF more THEN "all_repos" ELSE "all_repos_each")
                    ELSE BuildEntry
       IN /\ Gate(called)
          /\ apiErrors' = IF got THEN apiErrors
                          ELSE IF called
                          THEN Inc(Inc(apiErrors, << "repos", "api_error" >>),
                                   << "repos", "collection_error" >>)
                          ELSE Inc(apiErrors, << "repos", "collection_error" >>)
          /\ cyc' = IF got
                    THEN [ Called(cyc, "list_all") EXCEPT
                             !.pages = Append(@, [ page |-> loop.page,
                                                   repos |-> ans.repos,
                                                   last |-> ans.lastPage ]),
                             !.errored = FALSE ]
                    ELSE EnterStage(Errored(IF called THEN Called(cyc, "list_all")
                                            ELSE Waited(cyc), called, ans),
                                    BuildEntry)
          /\ loop' = IF got
                     THEN [ loop EXCEPT !.all = @ \o ans.repos,
                                        !.page = IF more THEN @ + 1 ELSE @ ]
                     ELSE LoopInit
          /\ pc' = after
    /\ UNCHANGED << cfg, cancelled, quota, gauges, refreshInterval, tickerNext, ticks >>

\* collectAllRepos: a listed repository with every required field set and
\* neither owner nor name empty.
AllRepoUsable(r) ==
    /\ ~IsNil(r)
    /\ ~IsNil(Deref(r).Name)
    /\ ~IsNil(Deref(r).Owner)
    /\ ~IsNil(Deref(Deref(r).Owner).Login)
    /\ Deref(Deref(Deref(r).Owner).Login) # EmptyString
    /\ Deref(Deref(r).Name) # EmptyString

\* collectAllRepos, one listed repository: skipped when a required field is
\* missing or empty, else passed to setRepoMetrics.
AllRepoEach(pr) ==
    /\ pc = "all_repos_each"
    /\ loop.j <= Len(loop.all)
    /\ IF AllRepoUsable(loop.all[loop.j])
       THEN LET info == Deref(loop.all[loop.j])
            IN setRepoMetrics(Deref(Deref(info.Owner).Login), Deref(info.Name),
                              Visibility(info), info, pr)
       ELSE UNCHANGED << now, limiter, win, gauges, apiErrors, cyc >>
    /\ loop' = [ loop EXCEPT !.j = @ + 1 ]
    /\ UNCHANGED << cfg, cancelled, pc, quota, refreshInterval, tickerNext, ticks >>

\* collectAllRepos returns nil; collectMetrics moves on.
AllReposFinish ==
    /\ pc = "all_repos_each"
    /\ loop.j > Len(loop.all)
    /\ cyc' = EnterStage(cyc, BuildEntry)
    /\ loop' = LoopInit
    /\ pc' = BuildEntry
    /\ UNCHANGED << cfg, now, cancelled, quota, limiter, gauges, apiErrors,
                    refreshInterval, tickerNext, ticks, win >>

\* ------------------------------------------------------ status reduction
\* getStatusValue with the default branch returning 0.0.
getStatusValue_DefaultFailed(conclusion) ==
    CASE conclusion = "success" -> 1
      [] conclusion \in { "failure", "cancelled", "timed_out" } -> 0
      [] conclusion \in { "pending", "in_progress", "queued" } -> 2
      [] conclusion \in { "skipped", "neutral" } -> 3
      [] OTHER -> 0

\* getStatusValue
getStatusValue(conclusion) ==
    CASE conclusion = "success" -> 1
      [] conclusion \in { "failure", "cancelled", "timed_out" } -> 0
      [] conclusion \in { "pending", "in_progress", "queued" } -> 2
      [] conclusion \in { "skipped", "neutral" } -> 3
      [] OTHER -> 2

\* conclusion := "unknown"; if run.Conclusion != nil { conclusion = *run.Conclusion }
ConclusionLabel(p) == IF IsNil(p) THEN "unknown" ELSE Deref(p)

\* collectBranchBuildStatus: a run that passes both filters of the loop.
RunMatches(run, branch) ==
    /\ ~IsNil(run.WorkflowID)
    /\ ~IsNil(run.Name)
    /\ ~IsNil(run.HeadBranch)
    /\ Deref(run.HeadBranch) = branch

\* branchStatus := 1.0
DefaultBranchStatus == 1

\* The comparison of the reduction turned around.
WorstStatus_Greater(branchStatus, statusValue) ==
    IF statusValue > branchStatus THEN statusValue ELSE branchStatus

\* if statusValue < branchStatus { branchStatus = statusValue }
WorstStatus(branchStatus, statusValue) ==
    IF statusValue < branchStatus THEN statusValue ELSE branchStatus

\* collectBranchBuildStatus: the gauges set for one matching run.
RunWrites(owner, repo, branch, run) ==
    LET c == ConclusionLabel(run.Conclusion)
    IN << << << "workflow_run_status", owner, repo, Deref(run.Name), branch, c >>,
             getStatusValue(c) >> >>
       \o (IF ~IsNil(run.RunStartedAt) /\ ~IsNil(run.UpdatedAt)
           THEN << << << "workflow_run_duration", owner, repo, Deref(run.Name),
                         branch, c >>,
                      Deref(run.UpdatedAt) - Deref(run.RunStartedAt) >> >>
           ELSE << >>)

\* collectBranchBuildStatus: the loop over workflowRuns.WorkflowRuns, from
\* the accumulator acc = [status, hasRuns, ws].
RECURSIVE ProcessRuns(_, _, _, _, _)
ProcessRuns(owner, repo, branch, runs, acc) ==
    IF runs = << >>
    THEN acc
    ELSE LET run == Head(runs)
         IN IF ~RunMatches(run, branch)
            THEN ProcessRuns(owner, repo, branch, Tail(runs), acc)
            ELSE ProcessRuns(owner, repo, branch, Tail(runs),
                   [ status |-> WorstStatus(acc.status,
                                   getStatusValue(ConclusionLabel(run.Conclusion))),
                     hasRuns |-> TRUE,
                     ws |-> acc.ws \o RunWrites(owner, repo, branch, run) ])

\* The branch status set without the hasRuns guard.
BranchStatusWrites_Unguarded(owner, repo, branch, acc) ==
    << << << "branch_build_status", owner, repo, branch >>, acc.status >> >>

\* if hasRuns { GitHubBranchBuildStatus...Set(branchStatus) }
BranchStatusWrites(owner, repo, branch, acc) ==
    IF acc.hasRuns
    THEN << << << "branch_build_status", owner, repo, branch >>, acc.status >> >>
    ELSE << >>

\* collectBranchBuildStatus: every gauge set from one page of workflow runs.
WorkflowWrites(owner, repo, branch, runs) ==
    LET acc == ProcessRuns(owner, repo, branch, runs,
                 [ status |-> DefaultBranchStatus, hasRuns |-> FALSE, ws |-> << >> ])
    IN acc.ws \o BranchStatusWrites(owner, repo, branch, acc)

\* collectCheckRuns: every gauge set from one page of check runs.
RECURSIVE CheckWrites(_, _, _, _)
CheckWrites(owner, repo, branch, checks) ==
    IF checks = << >>
    THEN << >>
    ELSE LET c == Head(checks)
             label == ConclusionLabel(c.Conclusion)
         IN (IF IsNil(c.Name)
             THEN << >>
             ELSE << << << "check_run_status", owner, repo, Deref(c.Name), branch,
                           label >>,
                        getStatusValue(label) >> >>)
            \o CheckWrites(owner, repo, branch, Tail(checks))

\* ---------------------------------------------------- build-status stage
\* What ListRepositoryWorkflowRuns and ListCheckRunsForRef can answer.
RunsError == [ kind |-> "error", runs |-> << >> ]
RunsOk(runs) == [ kind |-> "ok", runs |-> runs ]
ChecksError == [ kind |-> "error", checks |-> << >> ]
ChecksOk(checks) == [ kind |-> "ok", checks |-> checks ]

\* collectBuildStatusForAllRepos, one turn of the paging loop: limiter.Wait
\* and ListByAuthenticatedUser answering ans.  A failed wait or an error ends
\* the stage, and collectMetrics counts the stage error.
BuildAllPage(ans) ==
    /\ pc = "build_all"
    /\ PageWithinListing(ans)
    /\ LET called == WaitSucceeds
           got == called /\ ans.kind = "ok"
           more == got /\ ~LastPageReached(ans)
       IN /\ Gate(called)
          /\ apiErrors' = IF got THEN apiErrors
                          ELSE IF called
                          THEN Inc(Inc(apiErrors, << "repos", "api_error" >>),
                                   << "build_status", "collection_error" >>)
                          ELSE Inc(apiErrors, << "build_status", "collection_error" >>)
          /\ cyc' = Errored(IF called THEN Called(cyc, "list_all") ELSE Waited(cyc),
                            called, ans)
          /\ loop' = IF got
                     THEN [ loop EXCEPT !.all = @ \o ans.repos,
                                        !.page = IF more THEN @ + 1 ELSE @ ]
                     ELSE LoopInit
          /\ pc' = IF got THEN (IF more THEN "build_all" ELSE "build_each")
                   ELSE "cycle_end"
    /\ UNCHANGED << cfg, cancelled, quota, gauges, refreshInterval, tickerNext, ticks >>

\* The position in, and the length of, the list of repositories the stage
\* walks: the listing under the wildcard, the configured entries otherwise.
BuildIndex == IF hasWildcardRepos THEN loop.j ELSE loop.i
BuildCount == IF hasWildcardRepos THEN Len(loop.all) ELSE Len(cfg.Repos)

\* collectBuildStatusForAllRepos: the fields checked before the dereferences.
BuildAllRepoChecked(r) ==
    /\ ~IsNil(r)
    /\ ~IsNil(Deref(r).Owner)
    /\ ~IsNil(Deref(r).Name)

\* What the stage does with the current repository: "skip" it, "panic" on
\* owner := *repo.Owner.Login with Login nil, or "collect" its branches.
TargetStatus ==
    IF hasWildcardRepos
    THEN LET r == loop.all[loop.j]
         IN IF ~BuildAllRepoChecked(r) THEN "skip"
            ELSE IF IsNil(Deref(Deref(r).Owner).Login) THEN "panic"
            ELSE IF Deref(Deref(Deref(r).Owner).Login) = EmptyString
                    \/ Deref(Deref(r).Name) = EmptyString
            THEN "skip"
            ELSE "collect"
    ELSE IF Len(CurrentRepoParts) # 2 THEN "skip" ELSE "collect"

\* The (owner, repo) pair whose branches are being collected.
BuildTarget ==
    IF hasWildcardRepos
    THEN LET info == Deref(loop.all[loop.j])
         IN << Deref(Deref(info.Owner).Login), Deref(info.Name) >>
    ELSE << CurrentRepoParts[1], CurrentRepoParts[2] >>

CurrentBranch == cfg.Branches[loop.b]

\* The loops' variables when the current repository is left.
NextTarget ==
    IF hasWildcardRepos
    THEN [ loop EXCEPT !.b = 1, !.j = @ + 1, !.runs = << >> ]
    ELSE [ loop EXCEPT !.b = 1, !.i = @ + 1, !.runs = << >> ]

\* The loops' variables once the current branch is done.
NextBranch ==
    IF loop.b < Len(cfg.Branches)
    THEN [ loop EXCEPT !.b = @ + 1, !.runs = << >> ]
    ELSE NextTarget

\* collectBuildStatusMetrics returns; collectMetrics is done.
BuildDone ==
    /\ pc = "build_each"
    /\ BuildIndex > BuildCount
    /\ loop' = LoopInit
    /\ pc' = "cycle_end"
    /\ UNCHANGED << cfg, now, cancelled, quota, limiter, gauges, apiErrors,
                    refreshInterval, tickerNext, ticks, cyc, win >>

\* The build-status loops, one (repository, branch): the repository's checks,
\* then collectBranchBuildStatus up to its call of collectCheckRuns:
\* limiter.Wait, ListRepositoryWorkflowRuns answering ans, the workflow-run
\* gauges and the branch status.  A failed wait or an error is counted by the
\* caller as a branch error.
BranchRuns(ans) ==
    /\ pc = "build_each"
    /\ BuildIndex <= BuildCount
    /\ LET status == TargetStatus
           called == status = "collect" /\ WaitSucceeds
           got == called /\ ans.kind = "ok"
           ws == IF got
                 THEN WorkflowWrites(BuildTarget[1], BuildTarget[2], CurrentBranch,
                                     ans.runs)
                 ELSE << >>
       IN /\ Gate(called)
          /\ gauges' = WriteAll(gauges, ws)
          /\ apiErrors' = IF status = "collect" /\ ~got
                          THEN Inc(apiErrors, << "build_status", "branch_error" >>)
                          ELSE apiErrors
          /\ cyc' = [ Failed(IF called THEN Called(cyc, "workflow_runs")
                             ELSE IF status = "collect" THEN Waited(cyc)
                             ELSE cyc, called, ans)
                        EXCEPT !.written = @ \cup Keys(ws) ]
          /\ loop' = IF got THEN [ loop EXCEPT !.runs = ans.runs ]
                     ELSE IF status = "collect" THEN NextBranch
                     ELSE IF status = "skip" THEN NextTarget
                     ELSE loop
          /\ pc' = IF got THEN "check_runs"
                   ELSE IF status = "panic" THEN "panicked"
                   ELSE "build_each"
    /\ UNCHANGED << cfg, cancelled, quota, refreshInterval, tickerNext, ticks >>

\* collectCheckRuns: limiter.Wait, ListCheckRunsForRef answering ans, the
\* check-run gauges.  Its error is only logged.
CheckRuns(ans) ==
    /\ pc = "check_runs"
    /\ LET called == WaitSucceeds
           got == called /\ ans.kind = "ok"
           ws == IF got
                 THEN CheckWrites(BuildTarget[1], BuildTarget[2], CurrentBranch,
                                  ans.checks)
                 ELSE << >>
       IN /\ Gate(called)
          /\ gauges' = WriteAll(gauges, ws)
          /\ cyc' = [ Failed(IF called THEN Called(cyc, "check_runs") ELSE Waited(cyc),
                             called, ans)
                        EXCEPT !.written = @ \cup Keys(ws) ]
    /\ loop' = NextBranch
    /\ pc' = "build_each"
    /\ UNCHANGED << cfg, cancelled, quota, apiErrors,
                    refreshInterval, tickerNext, ticks >>

\* ------------------------------------------------------ upstream answers
MkRun(headBranch, conclusion) ==
    [ WorkflowID |-> Some(1), Name |-> Some("ci"), HeadBranch |-> headBranch,
      Conclusion |-> conclusion, RunStartedAt |-> Some(100), UpdatedAt |-> Some(160) ]

MkCheck(name, conclusion) == [ Name |-> name, Conclusion |-> conclusion ]

\* Every conclusion getStatusValue names, and one it does not.
Conclusions ==
    { "success", "failure", "cancelled", "timed_out", "pending", "in_progress",
      "queued", "skipped", "neutral", "action_required" }

\* One conclusion per status value.
StatusConclusions == { "success", "failure", "in_progress", "skipped" }

QuotaLimit == 5000
RemainingValues == { 0, 1, 5, 1000 }

\* Quota answers: every combination of a remaining count and a reset time.
AllQuotaAnswers ==
    { QuotaError, QuotaNoCore }
    \cup { QuotaOk(QuotaLimit, r, z) :
             r \in RemainingValues, z \in { "zero", "past", "future" } }

\* Quota answers: a failure, an exhausted quota and a healthy one.
SomeQuotaAnswers ==
    { QuotaError, QuotaOk(QuotaLimit, 0, "future"), QuotaOk(QuotaLimit, 1000, "future") }

HealthyQuota == { QuotaOk(QuotaLimit, 1000, "future") }

SomeOrgAnswers == { OrgError, OrgNotFound, OrgNoBody, OrgOk(OrgFull), OrgOk(OrgBare) }
SomeListAnswers ==
    { ListError, ListNotFound, ListOk(<< >>),
      ListOk(<< Some(RepoFull), Some(RepoNilName) >>) }
SomePrAnswers == { PrError, PrOk(Some(5)) }
SomeRepoAnswers == { RepoError, RepoOk(RepoFull) }
SomePages ==
    { PageError, PageOk(<< >>, 0), PageOk(<< Some(RepoFull) >>, 1),
      PageOk(<< Some(RepoNoLogin) >>, 1),
      PageOk(<< Some(RepoFull), Some(RepoNoOwner) >>, MaxPages) }
SomeRunAnswers ==
    { RunsError, RunsOk(<< >>), RunsOk(<< MkRun(Some("main"), Some("failure")) >>) }
SomeCheckAnswers == { ChecksError, ChecksOk(<< MkCheck(Some("lint"), Some("success")) >>) }

\* Workflow-run answers: every page of at most MaxRuns runs, each with one of
\* the four status values on the monitored branch, no conclusion, another
\* branch, or no branch.
RunValues ==
    { MkRun(Some("main"), Some(c)) : c \in StatusConclusions }
    \cup { MkRun(Some("main"), Nil), MkRun(Some("dev"), Some("failure")),
           MkRun(Nil, Some("failure")) }
AllRunAnswers == { RunsError } \cup { RunsOk(rs) : rs \in SeqsUpTo(RunValues, MaxRuns) }

\* Check-run answers: every page of at most MaxChecks check runs, each with
\* one of the conclusions, none, or no name.
CheckValues ==
    { MkCheck(Some("lint"), Some(c)) : c \in Conclusions }
    \cup { MkCheck(Some("lint"), Nil), MkCheck(Nil, Some("failure")) }
AllCheckAnswers ==
    { ChecksError } \cup { ChecksOk(cs) : cs \in SeqsUpTo(CheckValues, MaxChecks) }

\* ------------------------------------------------------- specifications
\* The steps every cycle takes, RateLimit.Get answering from quotaAnswers.
CycleSteps(quotaAnswers) ==
    \/ \E ans \in quotaAnswers : UpdateRateLimits(ans)
    \/ CycleWait
    \/ OrgsDone
    \/ AfterCycle

OrgStage(orgAnswers, listAnswers, prAnswers) ==
    \/ \E ans \in orgAnswers : OrgGet(ans)
    \/ \E ans \in listAnswers : OrgReposList(ans)
    \/ \E pr \in prAnswers : OrgRepoEach(pr)
    \/ OrgReposFinish

RepoStage(repoAnswers, prAnswers) ==
    \/ \E ans \in repoAnswers : RepoEntry(ans)
    \/ \E pr \in prAnswers : RepoSetMetrics(pr)
    \/ ReposDone

AllReposStage(pages, prAnswers) ==
    \/ \E ans \in pages : AllReposPage(ans)
    \/ \E pr \in prAnswers : AllRepoEach(pr)
    \/ AllReposFinish

BuildListing(pages) == \E ans \in pages : BuildAllPage(ans)

BuildStage(runAnswers, checkAnswers) ==
    \/ \E ans \in runAnswers : BranchRuns(ans)
    \/ \E ans \in checkAnswers : CheckRuns(ans)
    \/ BuildDone

\* The collector with explicit repositories: every stage but the wildcard
\* listing, one answer of each kind per call, cancellation at any moment.
Next ==
    \/ CycleSteps(SomeQuotaAnswers)
    \/ OrgStage(SomeOrgAnswers, SomeListAnswers, SomePrAnswers)
    \/ RepoStage(SomeRepoAnswers, SomePrAnswers)
    \/ BuildStage(SomeRunAnswers, SomeCheckAnswers)
    \/ Tick
    \/ Shutdown
    \/ Cancel

InitExplicit == Init /\ cfg \in ExplicitConfigs

Spec == InitExplicit /\ [][Next]_vars

\* One cycle of the collector under every configuration, the wildcard
\* included.
NextCycle ==
    \/ CycleSteps(SomeQuotaAnswers)
    \/ OrgStage(SomeOrgAnswers, SomeListAnswers, SomePrAnswers)
    \/ RepoStage(SomeRepoAnswers, SomePrAnswers)
    \/ AllReposStage(SomePages, SomePrAnswers)
    \/ BuildListing(SomePages)
    \/ BuildStage(SomeRunAnswers, SomeCheckAnswers)
    \/ Shutdown
    \/ Cancel

SpecCycle == Init /\ [][NextCycle]_vars

\* The quota tracker: every quota answer, over the cycles the ticker starts,
\* the entity calls succeeding, cancellation at any moment.
NextQuota ==
    \/ CycleSteps(AllQuotaAnswers)
    \/ RepoStage({ RepoOk(RepoFull) }, { PrOk(Some(5)) })
    \/ Tick
    \/ Shutdown
    \/ Cancel

InitQuota == Init /\ cfg \in QuotaConfigs

SpecQuota == InitQuota /\ [][NextQuota]_vars

\* The build-status stage of one cycle: every workflow-run and check-run
\* answer, the quota healthy and the repository calls succeeding.
NextBuild ==
    \/ CycleSteps(HealthyQuota)
    \/ RepoStage({ RepoOk(RepoFull) }, { PrOk(Some(5)) })
    \/ BuildStage(AllRunAnswers, AllCheckAnswers)

InitBuild == Init /\ cfg = CfgRepoBranch

SpecBuild == InitBuild /\ [][NextBuild]_vars

\* The build-status stage over the cycles the ticker starts.
BranchRunAnswers ==
    { RunsError, RunsOk(<< >>),
      RunsOk(<< MkRun(Some("main"), Some("failure")) >>),
      RunsOk(<< MkRun(Some("main"), Some("in_progress")) >>),
      RunsOk(<< MkRun(Some("dev"), Some("failure")) >>),
      RunsOk(<< MkRun(Nil, Some("failure")), MkRun(Some("main"), Some("success")) >>) }

NextBranches ==
    \/ CycleSteps(HealthyQuota)
    \/ RepoStage({ RepoOk(RepoFull) }, { PrOk(Some(5)) })
    \/ BuildStage(BranchRunAnswers, SomeCheckAnswers)
    \/ Tick

InitBranches == Init /\ cfg = CfgRepoBranch

SpecBranches == InitBranches /\ [][NextBranches]_vars

\* The interval computation over a range of configurations and quota states.
\* Quota fields as a refresh leaves them: nothing stored yet, or a limit with
\* a remaining count up to it and a reset time that is unset, past, now,
\* close, one hour ahead or two hours ahead.
IntervalRemaining == { 0, 1, 5, 100, 1000, QuotaLimit }
IntervalResets ==
    { 0, Epoch - PastOffset, Epoch, Epoch + ShortWindow, Epoch + OneHour,
      Epoch + 2 * OneHour }
IntervalQuotas ==
    { [ limit |-> 0, remaining |-> 0, reset |-> 0, lastCheck |-> 0 ] }
    \cup { [ limit |-> QuotaLimit, remaining |-> r, reset |-> z, lastCheck |-> Epoch ] :
              r \in IntervalRemaining, z \in IntervalResets }

\* run, when collectMetrics has returned and the interval is about to be
\* computed from the configuration and the stored quota fields.
InitInterval ==
    /\ cfg \in IntervalConfigs
    /\ now = Epoch
    /\ cancelled = FALSE
    /\ pc = "cycle_end"
    /\ quota \in IntervalQuotas
    /\ limiter = updateRateLimiter(NewLimiter(InitialRate, 1, Burst, Epoch, 0), quota, Epoch)
    /\ gauges = << >>
    /\ apiErrors = << >>
    /\ refreshInterval = 0
    /\ tickerNext = 0
    /\ ticks = 0
    /\ loop = LoopInit
    /\ cyc = [ CycInit EXCEPT !.refresh = IF quota.lastCheck = 0 THEN "call_failed" ELSE "ok" ]
    /\ win = [ set |-> FALSE, remaining |-> 0, reset |-> 0, calls |-> 0 ]

NextInterval == AfterCycle

SpecInterval == InitInterval /\ [][NextInterval]_vars

\* Cycles that outlast the interval: a fixed interval of five minutes and a
\* quota so low that the limiter hands out a token every quarter of an hour.
SlowQuotaAnswers ==
    { QuotaError, QuotaOk(QuotaLimit, 5, "future"), QuotaOk(QuotaLimit, 1000, "future") }

NextSlow ==
    \/ CycleSteps(SlowQuotaAnswers)
    \/ RepoStage({ RepoError, RepoOk(RepoFull) }, { PrOk(Some(5)) })
    \/ TickUpTo(MaxSlowTicks)
    \/ Shutdown
    \/ Cancel

InitSlow == Init /\ cfg = CfgFixed

SpecSlow == InitSlow /\ [][NextSlow]_vars

\* Cycles under a quota that is healthy or all but used up (one call
\* remaining, none after the buffer is applied), every stage seeing errors.
StageQuotaAnswers ==
    { QuotaError, QuotaOk(QuotaLimit, 1, "future"), QuotaOk(QuotaLimit, 1000, "future") }

NextStages ==
    \/ CycleSteps(StageQuotaAnswers)
    \/ OrgStage(SomeOrgAnswers, SomeListAnswers, SomePrAnswers)
    \/ RepoStage(SomeRepoAnswers, SomePrAnswers)
    \/ BuildStage(SomeRunAnswers, SomeCheckAnswers)
    \/ Tick
    \/ Shutdown
    \/ Cancel

InitStages == Init /\ cfg \in { CfgEmptyName, CfgOrgRepo }

SpecStages == InitStages /\ [][NextStages]_vars

\* Two organizations whose lookups and listings succeed or fail independently.
NextOrgs ==
    \/ CycleSteps(HealthyQuota)
    \/ OrgStage(SomeOrgAnswers, { ListError, ListOk(<< Some(RepoFull) >>) },
                { PrOk(Some(5)) })
    \/ RepoStage({ RepoOk(RepoFull) }, { PrOk(Some(5)) })
    \/ Tick
    \/ Shutdown
    \/ Cancel

InitOrgs == cfg = CfgTwoOrgs /\ Constructed

SpecOrgs == InitOrgs /\ [][NextOrgs]_vars

\* The accessible-repository listing under the wildcard: a page of every
\* length up to PerPage (its entries alternate between a full repository and
\* one without owner) with every declared last page, or an error.  The run
\* goroutine keeps taking steps while it can.
WildEntries(n) ==
    [ i \in 1..n |-> IF i % 2 = 1 THEN Some(RepoFull) ELSE Some(RepoNoOwner) ]

WildPages ==
    { PageError }
    \cup { PageOk(WildEntries(n), lp) : n \in 0..PerPage, lp \in 0..MaxPages }

NextWild ==
    \/ CycleSteps(HealthyQuota)
    \/ AllReposStage(WildPages, { PrOk(Some(5)) })
    \/ Shutdown
    \/ Cancel

InitWild == cfg = CfgWildcardOnly /\ Constructed

SpecWild == InitWild /\ [][NextWild]_vars /\ WF_vars(NextWild)

\* The repository stage over a list with malformed entries, the quota healthy.
NextMalformed ==
    \/ CycleSteps(HealthyQuota)
    \/ RepoStage(SomeRepoAnswers, SomePrAnswers)
    \/ Tick
    \/ Shutdown
    \/ Cancel

InitMalformed == cfg = CfgMalformed /\ Constructed

SpecMalformed == InitMalformed /\ [][NextMalformed]_vars

\* hasWildcardRepos over every repository list of at most MaxRepos entries:
\* the wildcard, a literal entry, and entries that hold a star without being
\* the wildcard.  The first cycle runs up to the choice of the repository stage.
StarStar == << "*", "*" >>
OwnerStar == << "a", "/", "*" >>
WildcardLists == SeqsUpTo({ Wildcard, RepoAW, StarStar, OwnerStar }, MaxRepos)

NextWildcardLists ==
    \/ \E ans \in HealthyQuota : UpdateRateLimits(ans)
    \/ CycleWait
    \/ OrgsDone

InitWildcardLists ==
    /\ cfg \in { MkConfig(<< >>, rs, << >>, 4, 5, 0) : rs \in WildcardLists }
    /\ Constructed

SpecWildcardLists == InitWildcardLists /\ [][NextWildcardLists]_vars

\* The scenario of acme/widgets: repository info with 10 stars and 2 open
\* issues (the other fields set or not), one workflow run on main that
\* failed, one check run "lint" that succeeded; the quota answer, the
\* open-PR total, the moment of a cancellation and the next tick vary.
ScenarioQuotas ==
    { QuotaOk(QuotaLimit, 1000, "future"), QuotaOk(QuotaLimit, QuotaLimit, "future"),
      QuotaOk(QuotaLimit, 1000, "past") }
ScenarioRepos ==
    { RepoFull,
      [ RepoBare EXCEPT !.StargazersCount = Some(10), !.OpenIssuesCount = Some(2) ] }

NextScenario ==
    \/ CycleSteps(ScenarioQuotas)
    \/ RepoStage({ RepoOk(r) : r \in ScenarioRepos }, { PrOk(Some(0)), PrOk(Some(5)) })
    \/ BuildStage({ RunsOk(<< MkRun(Some("main"), Some("failure")) >>) },
                  { ChecksOk(<< MkCheck(Some("lint"), Some("success")) >>) })
    \/ Tick
    \/ Shutdown
    \/ Cancel

InitScenario == cfg = CfgAcme /\ Constructed

SpecScenario == InitScenario /\ [][NextScenario]_vars

\* Cancellation at any moment of a collector whose calls succeed, under the
\* wildcard and with explicit targets; the listing holds a complete
\* repository or one whose owner has no login.  The run goroutine keeps
\* taking steps while it can; nothing forces the cancellation.
CancelPages == { PageOk(<< Some(RepoFull) >>, 1), PageOk(<< Some(RepoNoLogin) >>, 1) }

RunSteps ==
    \/ CycleSteps(HealthyQuota)
    \/ OrgStage({ OrgOk(OrgFull) }, { ListOk(<< Some(RepoFull) >>) }, { PrOk(Some(5)) })
    \/ RepoStage({ RepoOk(RepoFull) }, { PrOk(Some(5)) })
    \/ AllReposStage(CancelPages, { PrOk(Some(5)) })
    \/ BuildListing(CancelPages)
    \/ BuildStage({ RunsOk(<< MkRun(Some("main"), Some("failure")) >>) },
                  { ChecksOk(<< MkCheck(Some("lint"), Some("success")) >>) })
    \/ Tick
    \/ Shutdown

NextCancel == RunSteps \/ Cancel

InitCancel == cfg \in { CfgWildcard, CfgOrgRepo, CfgRepoBranch } /\ Constructed

SpecCancel == InitCancel /\ [][NextCancel]_vars /\ WF_vars(RunSteps)

\* The open pull request search over the cycles the ticker starts: an
\* error, no total, and totals of 0 and 5, for the repository listed under
\* its organization and configured by name.
PullAnswers == { PrError, PrOk(Nil), PrOk(Some(0)), PrOk(Some(5)) }

NextPulls ==
    \/ CycleSteps(HealthyQuota)
    \/ OrgStage({ OrgOk(OrgFull) }, { ListOk(<< Some(RepoFull) >>) }, PullAnswers)
    \/ RepoStage({ RepoOk(RepoFull) }, PullAnswers)
    \/ Tick
    \/ Shutdown
    \/ Cancel

InitPulls == cfg = CfgOrgRepo /\ Constructed

SpecPulls == InitPulls /\ [][NextPulls]_vars

\* Answers with every optional field set and with none of them set, for the
\* organization, the repository listed under it and configured by name, and
\* the open pull request search.
NextOptional ==
    \/ CycleSteps(HealthyQuota)
    \/ OrgStage({ OrgOk(OrgFull), OrgOk(OrgBare) },
                { ListOk(<< Some(RepoFull) >>), ListOk(<< Some(RepoBare) >>) },
                { PrOk(Nil), PrOk(Some(5)) })
    \/ RepoStage({ RepoOk(RepoFull), RepoOk(RepoBare) }, { PrOk(Nil), PrOk(Some(5)) })
    \/ Tick

InitOptional == cfg = CfgOrgRepo /\ Constructed

\* Cycles in which every upstream call returns a success and nothing is
\* cancelled, under every quota the refresh can report; the goroutine keeps
\* taking steps while it can.
ProgressQuotas ==
    { QuotaOk(QuotaLimit, r, z) : r \in RemainingValues, z \in { "past", "future" } }

NextProgress ==
    \/ CycleSteps(ProgressQuotas)
    \/ OrgStage({ OrgOk(OrgFull) }, { ListOk(<< Some(RepoFull) >>) }, { PrOk(Some(5)) })
    \/ RepoStage({ RepoOk(RepoFull) }, { PrOk(Some(5)) })
    \/ BuildStage({ RunsOk(<< >>) }, { ChecksOk(<< >>) })
    \/ Tick

InitProgress == cfg \in { CfgRepoBranch, CfgOrgRepo, CfgOrgTwoRepos } /\ Constructed

SpecProgress == InitProgress /\ [][NextProgress]_vars /\ WF_vars(NextProgress)

\* The build-status stage over the cycles the ticker starts: the workflow
\* "ci" and the check "lint" of the monitored branch fail in one cycle and
\* succeed in another.
NextSeries ==
    \/ CycleSteps(ScenarioQuotas)
    \/ RepoStage({ RepoOk(RepoFull) }, { PrOk(Some(5)) })
    \/ BuildStage({ RunsOk(<< MkRun(Some("main"), Some(c)) >>) : c \in { "failure", "success" } },
                  { ChecksOk(<< MkCheck(Some("lint"), Some(c)) >>) :
                      c \in { "failure", "success" } })
    \/ Tick

InitSeries == cfg = CfgRepoBranch /\ Constructed

SpecSeries == InitSeries /\ [][NextSeries]_vars

SpecOptional == InitOptional /\ [][NextOptional]_vars

\* The collector over names with an empty part, every stage seeing errors;
\* and setRepoMetrics called on its own with every combination of an empty
\* and a set owner and name, with and without a token, cancelled or not.
InitSetRepoMetrics ==
    /\ cfg = CfgEmptyLabels
    /\ now \in { Epoch, Epoch + 1 }
    /\ cancelled \in BOOLEAN
    /\ pc = "set_repo_metrics"
    /\ quota = [ limit |-> 0, remaining |-> 0, reset |-> 0, lastCheck |-> 0 ]
    /\ limiter \in { NewLimiter(InitialRate, 1, Burst, Epoch, 0),
                      Acquire(NewLimiter(InitialRate, 1, Burst, Epoch, 0), Epoch) }
    /\ gauges = << >>
    /\ apiErrors = << >>
    /\ refreshInterval = 0
    /\ tickerNext = 0
    /\ ticks = 0
    /\ \E owner \in { EmptyString, OwnerA }, repo \in { EmptyString, RepoW },
          info \in { RepoFull, RepoBare } :
           loop = [ LoopInit EXCEPT !.args = << owner, repo >>, !.info = Some(info) ]
    /\ cyc = CycInit
    /\ win = [ set |-> FALSE, remaining |-> 0, reset |-> 0, calls |-> 0 ]

InitEmptyLabels == (cfg = CfgEmptyLabels /\ Constructed) \/ InitSetRepoMetrics

NextEmptyLabels ==
    \/ CycleSteps(HealthyQuota)
    \/ OrgStage({ OrgOk(OrgFull) }, { ListOk(<< Some(RepoFull) >>) }, SomePrAnswers)
    \/ RepoStage({ RepoOk(RepoFull) }, SomePrAnswers)
    \/ BuildStage(SomeRunAnswers, SomeCheckAnswers)
    \/ Shutdown
    \/ Cancel
    \/ \E pr \in SomePrAnswers : SetRepoMetricsCall(pr)

SpecEmptyLabels == InitEmptyLabels /\ [][NextEmptyLabels]_vars

\* ------------------------------------------------------------- properties
\* The status gauges of the sink: one per (owner, repo, name, branch, conclusion).
StatusGauges ==
    { k \in DOMAIN gauges : k[1] \in { "workflow_run_status", "check_run_status" } }

\* The status values of the runs of a page that match the branch.
MatchingStatuses(runs, branch) ==
    { getStatusValue(ConclusionLabel(runs[i].Conclusion)) :
        i \in { j \in 1..Len(runs) :
                  /\ ~IsNil(runs[j].WorkflowID)
                  /\ ~IsNil(runs[j].Name)
                  /\ runs[j].HeadBranch = Some(branch) } }

Lowest(S) == CHOOSE x \in S : \A y \in S : x <= y

\* The branch-status key of the (repository, branch) being collected.
BranchKey ==
    << "branch_build_status", BuildTarget[1], BuildTarget[2], CurrentBranch >>

\* The workflow runs of the current (repository, branch) have just been processed.
RunsProcessed == pc = "check_runs"

\* C1: every status gauge carries the value the conclusion table gives its
\* conclusion label: success 1; failure, cancelled, timed_out 0; pending,
\* in_progress, queued 2; skipped, neutral 3; any other label, the
\* placeholder "unknown" of an absent conclusion included, 2; and the value
\* is one of 0, 1, 2, 3.
C1_ConclusionTable ==
    \A k \in StatusGauges :
        /\ gauges[k] \in { 0, 1, 2, 3 }
        /\ k[6] = "success" => gauges[k] = 1
        /\ k[6] \in { "failure", "cancelled", "timed_out" } => gauges[k] = 0
        /\ k[6] \in { "pending", "in_progress", "queued" } => gauges[k] = 2
        /\ k[6] \in { "skipped", "neutral" } => gauges[k] = 3
        /\ k[6] \notin { "success", "failure", "cancelled", "timed_out", "pending",
                         "in_progress", "queued", "skipped", "neutral" }
             => gauges[k] = 2

\* C1 witness: a check run without a conclusion was published under the
\* placeholder with the value 2.
C1_Witness ==
    \E k \in StatusGauges :
        k[1] = "check_run_status" /\ k[6] = "unknown" /\ gauges[k] = 2

\* C2: once the runs of a (repository, branch) are processed and at least
\* one matches the branch, the branch-status gauge equals the minimum status
\* value over the matching runs.
C2_BranchStatusIsMinimum ==
    (RunsProcessed /\ MatchingStatuses(loop.runs, CurrentBranch) # {})
        => /\ BranchKey \in DOMAIN gauges
           /\ gauges[BranchKey] = Lowest(MatchingStatuses(loop.runs, CurrentBranch))

\* C3: once the runs of a (repository, branch) are processed and at least
\* one matching run maps to 0, the branch-status gauge is 0, whatever the
\* other runs are and wherever the failed run stands in the page.
C3_FailureDominates ==
    (RunsProcessed /\ 0 \in MatchingStatuses(loop.runs, CurrentBranch))
        => /\ BranchKey \in DOMAIN gauges
           /\ gauges[BranchKey] = 0

\* C3 witness: the page success, failure, in_progress was reduced to 0.
C3_Witness ==
    /\ RunsProcessed
    /\ loop.runs = << MkRun(Some("main"), Some("success")),
                      MkRun(Some("main"), Some("failure")),
                      MkRun(Some("main"), Some("in_progress")) >>
    /\ gauges[BranchKey] = 0

\* C4: the step that processes a page of workflow runs none of which matches
\* the branch leaves the branch-status key as it was: absent if it was
\* absent, and with the value it had otherwise.
C4_NoMatchNoWrite ==
    [][ (pc = "build_each" /\ pc' = "check_runs"
         /\ MatchingStatuses(loop'.runs, CurrentBranch) = {})
        => /\ (BranchKey \in DOMAIN gauges') <=> (BranchKey \in DOMAIN gauges)
           /\ BranchKey \in DOMAIN gauges => gauges'[BranchKey] = gauges[BranchKey]
           /\ BranchKey \notin cyc'.written ]_vars

\* C4 witness: in the second cycle a page holding only a run of another
\* branch was processed and the gauge still shows the 0 of the first cycle.
C4_Witness ==
    /\ RunsProcessed
    /\ ticks = 1
    /\ loop.runs = << MkRun(Some("dev"), Some("failure")) >>
    /\ BranchKey \in DOMAIN gauges
    /\ gauges[BranchKey] = 0
    /\ BranchKey \notin cyc.written

\* The quota refresh of the cycle in progress failed.
RefreshFailed(c) == c.refresh \in { "wait_failed", "call_failed" }

\* No refresh succeeded yet, or five minutes passed since the last success.
RefreshDue == quota.lastCheck = 0 \/ now - quota.lastCheck >= 300

\* The step is updateRateLimits as collectMetrics calls it.
RefreshStep == pc = "rate_limits" /\ pc' # "rate_limits"

\* The step issues an upstream call.
CallIssued == cyc'.calls = cyc.calls + 1

\* C5: when the quota refresh of a cycle fails, on the limiter's Wait or on
\* the quota endpoint, the cycle ends there: no stage is entered, no entity
\* call is issued and no gauge is written in that cycle; the failing step
\* changes neither the gauges nor the quota fields and adds one to the
\* rate_limit/update_error counter and to nothing else.
C5_QuotaFailureEndsCycle ==
    /\ [](RefreshFailed(cyc) =>
            /\ pc \in { "cycle_end", "idle", "stopped" }
            /\ cyc.stages = << >>
            /\ cyc.entityCalls = 0
            /\ cyc.written = {})
    /\ [][ (RefreshStep /\ RefreshFailed(cyc'))
           => /\ gauges' = gauges
              /\ quota' = quota
              /\ apiErrors' = Inc(apiErrors, << "rate_limit", "update_error" >>)
              /\ pc' = "cycle_end" ]_vars

\* C5 witness: the quota endpoint failed in the second cycle, the cycle is
\* over and the gauges of the first cycle are still there.
C5_Witness ==
    /\ ticks = 1
    /\ cyc.refresh = "call_failed"
    /\ pc = "idle"
    /\ cyc.stages = << >>
    /\ << "orgs_total" >> \in DOMAIN gauges

\* C6 as claimed: the refresh step issues the quota call if and only if no
\* refresh succeeded yet or five minutes passed since the last success.
C6_CallIffDue ==
    [][ RefreshStep => (CallIssued <=> RefreshDue) ]_vars

\* C6 amended: the refresh step issues the quota call if and only if the
\* refresh is due and the limiter's Wait succeeds; a refresh that is not due
\* returns success with no call and leaves the four quota fields unchanged;
\* a failed refresh leaves them unchanged too.
C6_CallIffDueAndWaitOk ==
    [][ RefreshStep
        => /\ CallIssued <=> (RefreshDue /\ WaitSucceeds)
           /\ ~RefreshDue => /\ cyc'.refresh = "skipped"
                             /\ pc' = "cycle_wait"
                             /\ quota' = quota
                             /\ apiErrors' = apiErrors
           /\ RefreshFailed(cyc') => quota' = quota
           /\ (RefreshDue /\ ~WaitSucceeds) => cyc'.refresh = "wait_failed" ]_vars

\* C6 witness: the first cycle's refresh succeeded, and the second cycle,
\* starting at least five minutes later, issued the quota call again and
\* succeeded again (two limiters were installed by two successful refreshes).
C6_Witness ==
    /\ ticks = 1
    /\ cyc.refresh = "ok"
    /\ limiter.gen = 2

\* C7: while the window a successful refresh opened lasts (up to the reset
\* time it reported), the upstream calls issued since that refresh number
\* at most floor(remaining * buffer).
C7_CallsWithinBuffer ==
    (win.set /\ now <= win.reset)
        => win.calls <= (win.remaining * cfg.RateLimitBufferNum)
                          \div cfg.RateLimitBufferDen

\* C8 as claimed: in every cycle the tokens taken from the limiter equal the
\* upstream calls attempted.
C8_TokensEqualCalls == cyc.tokens = cyc.calls

\* C8 amended: every upstream call takes exactly one token, and the cycle
\* takes one more, with no call, before its first stage: the tokens of a
\* cycle equal its calls before that wait and its calls plus one after it.
C8_TokensEqualCallsPlusCycleWait ==
    cyc.tokens = cyc.calls + (IF cyc.stages = << >> THEN 0 ELSE 1)

\* C8 witness: under the wildcard a cycle reached the check runs, having
\* issued the quota check, two listings, a search and a workflow-run listing.
C8_Witness ==
    /\ hasWildcardRepos
    /\ pc = "check_runs"
    /\ cyc.calls = 5
    /\ cyc.tokens = 6

\* C9: the limiter is replaced only by a refresh step that succeeds and
\* leaves remaining > 0 and a reset time; every other step, a skipped or
\* failed refresh included, keeps the limiter's rate and burst.
C9_LimiterReplacedOnlyOnRefresh ==
    [][ /\ limiter'.gen # limiter.gen
           => /\ RefreshStep
              /\ cyc'.refresh = "ok"
              /\ quota'.remaining > 0
              /\ quota'.reset # 0
        /\ limiter'.gen = limiter.gen
           => /\ limiter'.rateNum = limiter.rateNum
              /\ limiter'.rateDen = limiter.rateDen
              /\ limiter'.burst = limiter.burst ]_vars

\* C9 witness: the second refresh reported remaining = 0 and the limiter
\* installed by the first refresh is still in place.
C9_Witness ==
    /\ ticks = 1
    /\ cyc.refresh = "ok"
    /\ quota.remaining = 0
    /\ limiter.gen = 1

\* A refresh has just succeeded with remaining > 0 and a reset time.
LimiterJustInstalled ==
    /\ pc = "cycle_wait"
    /\ cyc.refresh = "ok"
    /\ quota.remaining > 0
    /\ quota.reset # 0

\* C10 as claimed: the limiter just installed has burst 1 and the rate
\* (remaining * buffer) / (seconds until the reset time).
C10_RateIsBufferedRemainingOverTime ==
    LimiterJustInstalled
        => /\ limiter.burst = 1
           /\ limiter.rateNum * cfg.RateLimitBufferDen * (quota.reset - now)
                = quota.remaining * cfg.RateLimitBufferNum * limiter.rateDen

\* C10 amended: the limiter just installed has burst 1, a full bucket, and
\* the rate floor(remaining * buffer) / d, where d is the seconds until the
\* reset time, or 3600 when the reset time is not in the future.
C10_RateIsFlooredOverTimeOrHour ==
    LimiterJustInstalled
        => /\ limiter.burst = 1
           /\ limiter.tokens = limiter.rateDen
           /\ limiter.rateNum * (IF quota.reset - now > 0 THEN quota.reset - now ELSE 3600)
                = ((quota.remaining * cfg.RateLimitBufferNum)
                     \div cfg.RateLimitBufferDen) * limiter.rateDen

\* C10 witness: remaining = 5 with a buffer of one half gave the rate 2 per
\* ResetWindow seconds.
C10_Witness ==
    /\ LimiterJustInstalled
    /\ quota.remaining = 5
    /\ cfg = CfgAdaptive
    /\ limiter.rateNum = 2
    /\ limiter.rateDen = ResetWindow

\* run has computed the interval from the quota fields and the clock of this state.
IntervalComputed == pc = "idle"

\* The 30 s / 1 h limits applied to x.
Clamp(x) == IF x < 30 THEN 30 ELSE IF x > 3600 THEN 3600 ELSE x

\* The calls per cycle as the interval computation is described:
\* 2 * orgs + repos + (branches > 0 ? 2 * repos * branches : 0) + 1.
CallsPerCycle ==
    2 * Len(cfg.Orgs) + Len(cfg.Repos)
      + (IF Len(cfg.Branches) > 0 THEN 2 * Len(cfg.Repos) * Len(cfg.Branches) ELSE 0)
      + 1

\* floor(remaining * bufferFraction)
BufferedRemaining ==
    (quota.remaining * cfg.RateLimitBufferNum) \div cfg.RateLimitBufferDen

\* C11: with a non-zero fixed interval configured, the computed interval is
\* exactly that value in every quota state: below 30 s, above 1 h, whatever
\* remaining, limit and reset time are.
C11_FixedIntervalVerbatim ==
    (IntervalComputed /\ cfg.RefreshInterval > 0)
        => refreshInterval = cfg.RefreshInterval

\* C11 witness: a fixed interval of ten seconds was returned although the
\* quota state would have given an adaptive interval of thirty seconds or more.
C11_Witness ==
    /\ IntervalComputed
    /\ cfg = CfgShortFixed
    /\ quota.remaining = 1000
    /\ quota.reset = Epoch + OneHour
    /\ refreshInterval = ShortWindow

\* C12: with no fixed interval, remaining = 1000, buffer 0.8, two
\* organizations, three repositories, no branches and 3600 s until reset,
\* the calls per cycle are 8, the available calls 800, the possible cycles
\* 100 and the interval 36 s.
C12_WorkedExample ==
    ( /\ IntervalComputed
      /\ cfg.RefreshInterval = 0
      /\ Len(cfg.Orgs) = 2 /\ Len(cfg.Repos) = 3 /\ Len(cfg.Branches) = 0
      /\ cfg.RateLimitBufferNum * 5 = cfg.RateLimitBufferDen * 4
      /\ quota.remaining = 1000
      /\ quota.reset - now = 3600 )
        => /\ totalCallsPerCycle = 8
           /\ availableCalls(quota) = 800
           /\ cyclesPossible(quota) = 100
           /\ refreshInterval = 36

\* C12 witness: the worked example was computed and gave 36 s.
C12_Witness ==
    /\ IntervalComputed
    /\ cfg = CfgTwoOrgsThreeRepos
    /\ quota.remaining = 1000
    /\ quota.reset - now = 3600
    /\ refreshInterval = 36

\* C13 as claimed: with no fixed interval and floor(remaining * buffer) > 0
\* the interval is clamp(timeUntilReset / max(1, available div callsPerCycle),
\* 30 s, 1 h) for every reset time, past or future.
C13_ClampedQuotient ==
    (IntervalComputed /\ cfg.RefreshInterval = 0 /\ BufferedRemaining > 0)
        => refreshInterval
             = Clamp((quota.reset - now)
                       \div (IF BufferedRemaining \div CallsPerCycle < 1 THEN 1
                             ELSE BufferedRemaining \div CallsPerCycle))

\* C13 amended: with no fixed interval and floor(remaining * buffer) > 0 the
\* interval is clamp(d / max(1, available div callsPerCycle), 30 s, 1 h),
\* where d is the time until reset when the reset time lies in the future
\* and one hour when it does not.
C13_ClampedQuotientOrHour ==
    (IntervalComputed /\ cfg.RefreshInterval = 0 /\ BufferedRemaining > 0)
        => refreshInterval
             = Clamp((IF quota.reset - now > 0 THEN quota.reset - now ELSE 3600)
                       \div (IF BufferedRemaining \div CallsPerCycle < 1 THEN 1
                             ELSE BufferedRemaining \div CallsPerCycle))

\* C13 witness: two repositories and two branches (13 calls per cycle), 100
\* remaining (80 available, 6 cycles) and one hour until reset gave 600 s.
C13_Witness ==
    /\ IntervalComputed
    /\ cfg = CfgTwoBranches
    /\ quota.remaining = 100
    /\ quota.reset - now = 3600
    /\ refreshInterval = 600

\* C14: with no fixed interval and floor(remaining * buffer) <= 0, remaining
\* = 0 included, the interval is the time until reset, or the configured
\* default interval when the reset time has passed.
C14_ExhaustedWaitsForReset ==
    (IntervalComputed /\ cfg.RefreshInterval = 0 /\ BufferedRemaining <= 0)
        => refreshInterval
             = (IF quota.reset - now > 0 THEN quota.reset - now ELSE cfg.DefaultInterval)

\* C15: with no fixed interval, the computed interval is at least 30 s and
\* at most 1 h in every quota state and for every default interval.
C15_IntervalClamped ==
    (IntervalComputed /\ cfg.RefreshInterval = 0)
        => (refreshInterval >= 30 /\ refreshInterval <= 3600)

\* A collectMetrics call is running.
CycleInFlight == pc \notin { "idle", "stopped", "panicked" }

\* C16: a tick's handler starts only when no cycle is in flight: every step
\* that starts a cycle leaves the idle select of run, where the previous
\* collectMetrics has returned, however long that cycle took.
C16_OneCycleInFlight ==
    [][ (ticks' # ticks \/ (cyc' = CycInit /\ cyc # CycInit))
        => /\ ~CycleInFlight
           /\ pc = "idle"
           /\ pc' = "rate_limits"
           /\ ticks' = ticks + 1 ]_vars

\* C16 witness: the second cycle outlasted the interval, its tick fell due
\* while it ran, and the third cycle started late, after it had returned.
C16_Witness ==
    /\ ticks = 2
    /\ pc = "rate_limits"
    /\ cyc = CycInit
    /\ tickerNext - now < refreshInterval

\* collectMetrics has returned.
CycleOver == pc \in { "cycle_end", "idle" }

\* The stages of a cycle in their order: organizations, repositories, and
\* build status when at least one branch is configured.
StagesInOrder ==
    IF Len(cfg.Branches) > 0 THEN << "orgs", "repos", "build" >> ELSE << "orgs", "repos" >>

\* C17: in every cycle whose quota refresh succeeded and that was not
\* cancelled, the stages entered are organizations, repositories and, if and
\* only if a branch is configured, build status, in that order, whatever
\* errors the entity calls and the earlier stages met; and the stages
\* entered so far are always a prefix of that order.
C17_StagesRunInOrder ==
    /\ \E n \in 0..Len(StagesInOrder) : cyc.stages = SubSeq(StagesInOrder, 1, n)
    /\ (CycleOver /\ cyc.refresh \in { "ok", "skipped" } /\ ~cancelled)
         => cyc.stages = StagesInOrder

\* The keys of the metrics of the organization at position i of Orgs:
\* public repos, followers, following and the per-organization repository counts.
OrgMetricKeys(i) ==
    { << "orgs_public_repos", cfg.Orgs[i] >>, << "orgs_followers", cfg.Orgs[i] >>,
      << "orgs_following", cfg.Orgs[i] >>,
      << "repos_total", cfg.Orgs[i], "public" >>,
      << "repos_total", cfg.Orgs[i], "private" >> }

\* C18: for every organization whose lookup answered an error or a 404 in
\* the cycle, no repository listing was called for it and none of its
\* metrics was written in that cycle; and the organization loop goes on to
\* the end all the same: the stage is left only after the last organization.
C18_FailedOrgSkipped ==
    /\ [](\A i \in cyc.orgFailed :
            /\ i \notin cyc.orgListed
            /\ OrgMetricKeys(i) \cap cyc.written = {})
    /\ [][ (pc = "orgs" /\ pc' \notin { "orgs", "org_repos" })
           => loop.i > Len(cfg.Orgs) ]_vars

\* C18 witness: the first organization answered 404, the second was looked
\* up, listed and its repository counts written in the same cycle.
C18_Witness ==
    /\ cyc.orgFailed = { 1 }
    /\ cyc.orgListed = { 2 }
    /\ << "repos_total", OwnerB, "private" >> \in cyc.written
    /\ << "orgs", "api_error" >> \notin DOMAIN apiErrors

\* The entries of the pages fetched so far, in order.
RECURSIVE Concat(_)
Concat(pages) ==
    IF pages = << >> THEN << >> ELSE Head(pages).repos \o Concat(Tail(pages))

\* A fetched page after which the enumeration stops: short, or the declared last page.
FinalPage(p) == Len(p.repos) < PerPage \/ p.page >= p.last

\* collectAllRepos is running: its paging loop or its processing loop.
Enumerating == pc \in { "all_repos", "all_repos_each" }

\* The paging discipline of the enumeration: pages 1, 2, 3, ... are
\* requested in order, each once, every page before the last fetched one
\* was full and not the declared last page, and the processing loop starts
\* on the first page that is short or the declared last one, holding
\* exactly the entries of the fetched pages; each entry is visited once.
PagingDiscipline ==
    /\ [](/\ \A i \in 1..Len(cyc.pages) : cyc.pages[i].page = i
          /\ \A i \in 1..(Len(cyc.pages) - 1) : ~FinalPage(cyc.pages[i])
          /\ pc = "all_repos"
               => /\ loop.page = Len(cyc.pages) + 1
                  /\ cyc.pages # << >> => ~FinalPage(cyc.pages[Len(cyc.pages)])
          /\ pc = "all_repos_each"
               => /\ cyc.pages # << >>
                  /\ FinalPage(cyc.pages[Len(cyc.pages)])
                  /\ loop.all = Concat(cyc.pages)
                  /\ loop.j \in 1..(Len(loop.all) + 1))
    /\ [][ /\ (pc = "all_repos_each" /\ pc' = "all_repos_each")
               => (loop'.all = loop.all /\ loop'.j \in { loop.j, loop.j + 1 })
           /\ (pc = "all_repos_each" /\ pc' # "all_repos_each")
               => loop.j = Len(loop.all) + 1 ]_vars

\* C19 as claimed: the paging discipline holds, the enumeration
\* terminates, and no fetched entry is dropped: the enumeration is never
\* left with fetched entries that the processing loop has not visited.
C19_NoFetchedEntryDropped ==
    /\ PagingDiscipline
    /\ [][ (Enumerating /\ ~Enumerating')
           => \/ Concat(cyc'.pages) = << >>
              \/ (pc = "all_repos_each" /\ loop.j = Len(loop.all) + 1) ]_vars
    /\ (Enumerating ~> ~Enumerating)

\* C19 amended: the paging discipline holds and the enumeration
\* terminates; when every page request succeeds, exactly the entries of
\* the fetched pages are processed, each once; the paging loop is left
\* without processing only by a page request that failed (limiter wait or
\* upstream error), which ends the stage with a counted error and leaves
\* the entries fetched so far unprocessed.
C19_PagingExactUnlessRequestFails ==
    /\ PagingDiscipline
    /\ [][ (pc = "all_repos" /\ ~Enumerating')
           => /\ cyc'.pages = cyc.pages
              /\ apiErrors' # apiErrors
              /\ gauges' = gauges ]_vars
    /\ (Enumerating ~> ~Enumerating)

\* C19 witness: pages 1 and 2 were fetched, the first full and not the
\* last, and the processing loop has visited all three entries.
C19_Witness ==
    /\ pc = "all_repos_each"
    /\ Len(cyc.pages) = 2
    /\ Len(loop.all) = 3
    /\ loop.j = 4

\* The repository loop stands before an entry that does not split on "/"
\* into exactly two non-empty segments.
AtMalformedEntry ==
    /\ pc = "repos"
    /\ loop.i <= Len(cfg.Repos)
    /\ LET parts == Split(cfg.Repos[loop.i], Slash)
       IN Len(parts) # 2 \/ parts[1] = EmptyString \/ parts[2] = EmptyString

\* C20: in the repository stage without a wildcard, a step taken at a
\* malformed literal entry acquires no token, issues no upstream call and
\* writes no metric, and when the loop moves it moves to the next entry of
\* the same stage.
C20_MalformedEntrySkipped ==
    [][ AtMalformedEntry
          => /\ limiter' = limiter
             /\ now' = now
             /\ cyc'.tokens = cyc.tokens
             /\ cyc'.calls = cyc.calls
             /\ win'.calls = win.calls
             /\ gauges' = gauges
             /\ apiErrors' = apiErrors
             /\ (loop' # loop => pc' = "repos" /\ loop'.i = loop.i + 1) ]_vars

\* C20 witness: the four malformed entries were passed, the good entry
\* between them was fetched and searched with the only two calls of the stage
\* so far, and the loop stands at the last entry, not cancelled.
C20_Witness ==
    /\ cfg = CfgMalformed
    /\ pc = "repos"
    /\ loop.i = Len(cfg.Repos)
    /\ cyc.entityCalls = 2
    /\ \E k \in cyc.written : k[1] = "repos_info" /\ k[2] = OwnerA /\ k[3] = RepoW
    /\ ~cancelled

\* The repository stage accepts the repository the build-status loop stands
\* at: a well-formed literal entry, or a listed repository with every
\* required field set and not empty.
RepoStageAccepts ==
    IF hasWildcardRepos
    THEN AllRepoUsable(loop.all[loop.j])
    ELSE RepoEntryValid(CurrentRepoParts)

\* The build-status loop stands at a repository, not cancelled.
AtBuildTarget == pc = "build_each" /\ BuildIndex <= BuildCount

\* C21: the build-status stage resolves targets as the repository stage
\* does: a workflow-run call is issued only for a repository the repository
\* stage accepts, a repository accepted there is not skipped here, and a
\* repository skipped there is skipped here, without a call and without a fault.
C21_BuildTargetsAsRepoTargets ==
    [][ AtBuildTarget
          => /\ cyc'.calls # cyc.calls => RepoStageAccepts
             /\ (RepoStageAccepts /\ WaitSucceeds /\ loop' # loop)
                  => cyc'.calls = cyc.calls + 1
             /\ (~RepoStageAccepts /\ loop' # loop)
                  => (pc' = "build_each" /\ loop' = NextTarget) ]_vars

\* setRepoMetrics is about to be called with an empty owner or name: by
\* collectOrgRepos for an organization with an empty name, or on its own.
SetRepoMetricsArgEmpty ==
    \/ /\ pc = "org_repo_each"
       /\ loop.j <= Len(loop.all)
       /\ OrgRepoUsable(loop.all[loop.j])
       /\ CurrentOrg = EmptyString
    \/ /\ pc = "set_repo_metrics"
       /\ (loop.args[1] = EmptyString \/ loop.args[2] = EmptyString)

\* The gauges labelled with an owner and a repository: every key of four
\* labels or more (name, owner, repository, ...).
RepoScopedKeys == { k \in DOMAIN gauges : Len(k) >= 4 }

\* setRepoMetrics called with an empty owner or name writes nothing, takes
\* no token, issues no call and does not fault.
EmptyArgsNoEffect ==
    [][ SetRepoMetricsArgEmpty
          => /\ gauges' = gauges
             /\ limiter' = limiter
             /\ cyc'.tokens = cyc.tokens
             /\ cyc'.calls = cyc.calls
             /\ pc' # "panicked" ]_vars

\* C22: setRepoMetrics called with an empty owner or an empty repository
\* name writes nothing to the sink, takes no token, issues no call and does
\* not fault; and no gauge in the sink ever carries an empty owner or an
\* empty repository name.
C22_NoEmptyLabel ==
    /\ EmptyArgsNoEffect
    /\ [](\A k \in RepoScopedKeys : k[2] # EmptyString /\ k[3] # EmptyString)

\* The owner, name and visibility setRepoMetrics is about to be called with,
\* none of them empty: by collectRepoMetrics for the repository just
\* fetched, by collectOrgRepos or collectAllRepos for a usable listed one.
EmitTarget ==
    IF pc = "repo_metrics"
    THEN << << CurrentRepoParts[1], CurrentRepoParts[2], Visibility(Deref(loop.info)) >> >>
    ELSE IF pc = "org_repo_each" /\ loop.j <= Len(loop.all)
            /\ OrgRepoUsable(loop.all[loop.j]) /\ CurrentOrg # EmptyString
    THEN LET info == Deref(loop.all[loop.j])
         IN << << CurrentOrg, Deref(info.Name), Visibility(info) >> >>
    ELSE IF pc = "all_repos_each" /\ loop.j <= Len(loop.all)
            /\ AllRepoUsable(loop.all[loop.j])
    THEN LET info == Deref(loop.all[loop.j])
         IN << << Deref(Deref(info.Owner).Login), Deref(info.Name), Visibility(info) >> >>
    ELSE << >>

\* The open-PR gauge of the repository about to be emitted.
OpenPRsKey ==
    << "repos_open_prs", EmitTarget[1][1], EmitTarget[1][2], EmitTarget[1][3] >>

\* A step that emits the metrics of a repository.
Emission == EmitTarget # << >> /\ loop' # loop

\* The step leaves the open-PR gauge as it was.
OpenPRsUnchanged ==
    /\ OpenPRsKey \in DOMAIN gauges' <=> OpenPRsKey \in DOMAIN gauges
    /\ OpenPRsKey \in DOMAIN gauges => gauges'[OpenPRsKey] = gauges[OpenPRsKey]

\* The step sets the open-PR gauge from the search answer it received: to
\* the total a successful search reports, to nothing new when no search
\* answered.
OpenPRsFromSearch ==
    IF cyc'.search # << >> /\ cyc'.search[1].kind = "ok"
    THEN LET total == cyc'.search[1].total
         IN ~IsNil(total) => gauges'[OpenPRsKey] = Deref(total)
    ELSE OpenPRsUnchanged

\* C23 as claimed: every emission of a repository's metrics takes one token
\* and issues one search call; the open-PR gauge is the total of a
\* successful search and is left unchanged by a failed one.
C23_OneSearchPerEmission ==
    [][ Emission
          => /\ cyc'.calls = cyc.calls + 1
             /\ cyc'.tokens = cyc.tokens + 1
             /\ cyc'.search # << >>
             /\ OpenPRsFromSearch ]_vars

\* C23 amended: every emission issues at most one search call, behind one
\* token: exactly one when the limiter's wait succeeds, none when it fails;
\* the open-PR gauge is the total of a successful search and is left
\* unchanged when the wait or the search fails.
C23_OneSearchWhenWaitSucceeds ==
    [][ Emission
          => /\ cyc'.calls = cyc.calls + (IF WaitSucceeds THEN 1 ELSE 0)
             /\ cyc'.tokens = cyc.tokens + (IF WaitSucceeds THEN 1 ELSE 0)
             /\ cyc'.search # << >> <=> WaitSucceeds
             /\ OpenPRsFromSearch ]_vars

\* C23 witness: in the second cycle the search for the configured repository
\* failed, and its open-PR gauge still holds the total of 5 the first cycle
\* reported.
C23_Witness ==
    /\ ticks = 1
    /\ pc = "repos"
    /\ loop.i = 2
    /\ cyc.search = << PrError >>
    /\ << "repos_open_prs", OwnerA, RepoW, "private" >> \in DOMAIN gauges
    /\ gauges[<< "repos_open_prs", OwnerA, RepoW, "private" >>] = 5

\* The gauges collectBranchBuildStatus sets from the workflow runs.
WorkflowGauges ==
    { k \in DOMAIN gauges :
        k[1] \in { "workflow_run_status", "workflow_run_duration", "branch_build_status" } }

\* C24: for every (repository, branch) pair the two fetches are isolated
\* from each other: whatever the workflow-run fetch answers, the check-run
\* fetch of the same pair is attempted next; and a check-run fetch, failed or
\* not, leaves every workflow-run and branch-status gauge in place.
C24_FetchesIsolated ==
    [][ /\ (AtBuildTarget /\ TargetStatus = "collect" /\ loop' # loop)
             => (pc' = "check_runs" /\ loop'.i = loop.i /\ loop'.b = loop.b)
        /\ pc = "check_runs"
             => \A k \in WorkflowGauges : k \in DOMAIN gauges' /\ gauges'[k] = gauges[k] ]_vars

\* C25: no upstream outcome puts the collector into a fault: whatever the
\* calls answer (errors, 404s, payloads with absent optional fields), the
\* run goroutine never panics.
C25_NeverPanics == pc # "panicked"

C27_CancelStopsCollector ==
    /\ [][ cancelled
             => /\ now' = now
                /\ limiter' = limiter
                /\ cyc' # CycInit => (cyc'.calls = cyc.calls /\ cyc'.tokens = cyc.tokens)
                /\ pc' # "panicked" ]_vars
    /\ (cancelled ~> pc = "stopped")

\* The cycle is complete: collectMetrics has returned after the repository
\* lookup, the open-PR search, the workflow-run fetch and the check-run
\* fetch were all issued and none failed.
CycleComplete ==
    /\ pc \in { "cycle_end", "idle", "stopped" }
    /\ cyc.entityCalls = 4
    /\ cyc.failed = {}

\* The gauge k is in the sink with the value v.
GaugeIs(k, v) == k \in DOMAIN gauges /\ gauges[k] = v

\* C28: after one complete cycle over acme/widgets and main, with 10 stars,
\* 2 open issues, a failed workflow run on main and a succeeded check run
\* "lint", the sink holds stars = 10, open issues = 2, branch build status
\* = 0, workflow-run status (failure) = 0 and check-run status (lint,
\* success) = 1.
C28_AcmeWidgetsScenario ==
    CycleComplete
      => /\ \E vis \in { "public", "private" } :
              /\ GaugeIs(<< "repos_stars", Acme, Widgets, vis >>, 10)
              /\ GaugeIs(<< "repos_open_issues", Acme, Widgets, vis >>, 2)
         /\ GaugeIs(<< "branch_build_status", Acme, Widgets, "main" >>, 0)
         /\ GaugeIs(<< "workflow_run_status", Acme, Widgets, "ci", "main", "failure" >>, 0)
         /\ GaugeIs(<< "check_run_status", Acme, Widgets, "lint", "main", "success" >>, 1)

\* C28 witness: the first cycle is complete and the collector idles.
C28_Witness == CycleComplete /\ pc = "idle" /\ ticks = 0 /\ ~cancelled

\* The entries of the configured repository list.
ConfiguredRepos == { cfg.Repos[i] : i \in 1..Len(cfg.Repos) }

\* C29: hasWildcardRepos is true exactly when some entry of the repository
\* list is "*", wherever it stands: the stage chosen after the organization
\* stage is the listing of all repositories if and only if the list holds
\* the wildcard, and it is the loop over the entries for an empty list and
\* for a list of literal entries only.
C29_WildcardDetected ==
    /\ [](hasWildcardRepos <=> Wildcard \in ConfiguredRepos)
    /\ [](cfg.Repos = << >> => ~hasWildcardRepos)
    /\ [](ConfiguredRepos \subseteq { RepoAW, StarStar, OwnerStar } => ~hasWildcardRepos)
    /\ [][ (pc = "orgs" /\ pc' # "orgs")
             => pc' = (IF Wildcard \in ConfiguredRepos THEN "all_repos" ELSE "repos") ]_vars

\* C29 witness: the wildcard stands last, after two literal entries, and
\* the listing of all repositories was chosen.
C29_Witness ==
    /\ pc = "all_repos"
    /\ cfg.Repos = << RepoAW, OwnerStar, Wildcard >>

\* gc.limiter refers to a limiter.
LimiterPresent == limiter # Nil

\* The collector as NewGitHubCollector returns it: nothing has run yet.
JustConstructed == pc = "rate_limits" /\ ticks = 0 /\ cyc = CycInit

\* C30: the collector NewGitHubCollector returns holds a limiter of 1
\* request per second and burst 1, full, and an empty quota: limit 0,
\* remaining 0, reset time and time of the last check unset; and in every
\* state reached afterwards the limiter is present.
C30_ConstructedWithLimiter ==
    /\ [](JustConstructed
            => /\ LimiterPresent
               /\ limiter.rateNum = 1 /\ limiter.rateDen = 1 /\ limiter.burst = 1
               /\ TokensAt(limiter, now) = limiter.rateDen
               /\ quota = [ limit |-> 0, remaining |-> 0, reset |-> 0, lastCheck |-> 0 ])
    /\ []LimiterPresent

\* C30 witness: a refresh that reported no remaining calls has left the
\* constructor's limiter in place.
C30_Witness ==
    /\ pc = "cycle_wait"
    /\ quota.limit = QuotaLimit
    /\ quota.remaining = 0
    /\ limiter.gen = 0


\* C31: every write of the quota fields or of the limiter reference is made
\* holding gc.mu's write lock, and every read of them, by the interval
\* calculation and by token acquisition alike, is made holding its read lock.
C31_SharedStateUnderLock ==
    \A a \in cyc.access :
        /\ a[2] = "write" => a[3] = "Lock"
        /\ a[2] = "read" => a[3] \in { "RLock", "Lock" }


\* The refresh of this cycle got an answer carrying a core record, and
\* updateRateLimits has just returned.
RefreshAnswered ==
    /\ pc = "cycle_wait"
    /\ cyc.resp # << >>
    /\ cyc.resp[1].core

\* C32: after a successful quota refresh the four quota fields are those of
\* the response just received (its limit, its remaining count, its reset
\* time) and the time of the check: none of them still holds an older value.
C32_QuotaReplacedTogether ==
    RefreshAnswered
        => quota = [ limit |-> cyc.resp[1].limit,
                     remaining |-> cyc.resp[1].remaining,
                     reset |-> cyc.resp[1].reset,
                     lastCheck |-> now ]


\* C33: with a wildcard and a branch configured the accessible repositories
\* are enumerated once per cycle: the build-status stage issues no listing
\* call of its own, and the list it works on is the one the repository stage
\* fetched.
C33_TargetsResolvedOnce ==
    /\ [][ pc = "build_all" => cyc'.calls = cyc.calls ]_vars
    /\ []((pc = "build_each" /\ hasWildcardRepos) => loop.all = Concat(cyc.pages))


\* run's statements after collectMetrics has returned in the ticker's case.
AfterTickedCycle == pc = "cycle_end" /\ pc' = "idle" /\ ticks > 0

CallReturnedError == cyc'.calls = cyc.calls + 1 /\ cyc'.errored

\* C35: whenever an upstream call returns an error, GitHubAPIErrorsTotal is
\* incremented, under some endpoint and error type, in the handling of
\* that call.
C35_FailedCallsCounted ==
    [][ CallReturnedError => apiErrors' # apiErrors ]_vars


\* The optional numeric fields of github.Repository and the gauge each one
\* feeds; those of github.Organization.
RepoOptionalFields ==
    { << "StargazersCount", "repos_stars" >>, << "ForksCount", "repos_forks" >>,
      << "WatchersCount", "repos_watchers" >>,
      << "OpenIssuesCount", "repos_open_issues" >>, << "Size", "repos_size" >>,
      << "UpdatedAt", "repos_last_updated" >>, << "CreatedAt", "repos_created_at" >> }

OrgOptionalFields ==
    { << "PublicRepos", "orgs_public_repos" >>, << "Followers", "orgs_followers" >>,
      << "Following", "orgs_following" >> }

\* The repository setRepoMetrics is about to be called with.
EmitInfo ==
    IF pc = "repo_metrics" THEN Deref(loop.info) ELSE Deref(loop.all[loop.j])

\* The step leaves the series k of the sink as it was.
Untouched(k) ==
    /\ k \in DOMAIN gauges' <=> k \in DOMAIN gauges
    /\ k \in DOMAIN gauges => gauges'[k] = gauges[k]

\* Organizations.Get has just answered with the organization now in loop.info.
OrgAnswered == pc = "orgs" /\ pc' = "org_repos" /\ ~IsNil(loop'.info)

\* C36: an optional numeric field absent from a successful answer leaves its
\* gauge alone: the star, fork, watcher, open-issue count, the size and the
\* two timestamps of a repository, the total of the open pull request
\* search, and the public-repository, follower and following counts of an
\* organization.
C36_AbsentFieldNotEmitted ==
    /\ [][ Emission
             => /\ \A f \in RepoOptionalFields :
                      IsNil(EmitInfo[f[1]])
                        => Untouched(<< f[2], EmitTarget[1][1], EmitTarget[1][2],
                                        EmitTarget[1][3] >>)
                /\ (cyc'.search # << >> /\ cyc'.search[1].kind = "ok"
                      /\ IsNil(cyc'.search[1].total))
                     => Untouched(OpenPRsKey) ]_vars
    /\ [][ OrgAnswered
             => \A f \in OrgOptionalFields :
                  IsNil(Deref(loop'.info)[f[1]]) => Untouched(<< f[2], CurrentOrg >>) ]_vars


\* C37: the limiter installed, by the constructor or by any rebuild, has a
\* strictly positive rate.
C37_LimiterRatePositive == limiter.rateNum > 0 /\ limiter.rateDen > 0


\* The positions of the entries of Repos that collectRepoMetrics accepts.
WellFormedRepos ==
    { i \in 1..Len(cfg.Repos) : RepoEntryValid(Split(cfg.Repos[i], Slash)) }

\* C38: in a cycle whose quota refresh succeeded and that is not cancelled,
\* every upstream call returning, the cycle is eventually over, and when it
\* is over Repositories.Get has been issued for every well-formed entry of
\* Repos, whatever quota the refresh reported.
C38_EveryRepoFetched ==
    /\ []((pc = "cycle_end" /\ cyc.refresh = "ok" /\ ~cancelled)
            => WellFormedRepos \subseteq cyc.fetched)
    /\ (pc = "cycle_wait" /\ cyc.refresh = "ok") ~> (pc = "idle")


\* C39: with explicit targets and every upstream call succeeding, the
\* upstream calls issued in one cycle, the quota check included, number at
\* most the estimate of the interval computation,
\* 2 * orgs + repos + (branches > 0 ? 2 * repos * branches : 0) + 1.
C39_EstimateBoundsCalls ==
    ~hasWildcardRepos => cyc.calls <= totalCallsPerCycle


\* The keys of the status series of workflow runs and check runs: metric,
\* owner, repository, name, branch, conclusion.
IsStatusKey(k) == Len(k) = 6 /\ k[1] \in { "workflow_run_status", "check_run_status" }

\* Two status keys of the same metric, repository, name and branch.
SameSeries(k, j) == \A i \in 1..5 : k[i] = j[i]

\* Every status series of k's name and branch written in this cycle carries
\* the conclusion success, and k is one of them.
AllSuccessThisCycle(k) ==
    /\ k \in cyc.written
    /\ IsStatusKey(k)
    /\ \A j \in cyc.written : (IsStatusKey(j) /\ SameSeries(k, j)) => j[6] = "success"

\* C40: once a cycle is over in which every check run (or matching workflow
\* run) fetched for a name and branch concluded with success, the sink holds
\* no status series of that name and branch with value 0, whatever earlier
\* cycles observed.
C40_StatusFollowsUpstream ==
    CycleOver
        => \A k \in cyc.written :
             AllSuccessThisCycle(k)
               => \A j \in DOMAIN gauges :
                    (IsStatusKey(j) /\ SameSeries(k, j)) => gauges[j] # 0
====
